---- MODULE Spec2Model ----
(***************************************************************************)
(* Model of the approximate query engine (namespace aqe).                  *)
(*                                                                         *)
(* Strings that the code concatenates, scans or formats (cell values,      *)
(* group keys, rendered cells) are sequences of one-character strings.     *)
(* Column names, aliases and table names are only compared and copied by   *)
(* the executor and are plain strings; the parser, which cuts them out of  *)
(* the query text, works on character sequences and hands them over        *)
(* through the table Text.                                                 *)
(*                                                                         *)
(* A double is a pair <<n, d>> (the rational n/d, d >= 1, lowest terms).   *)
(* Every double the model computes is a small integer, a quotient of two   *)
(* small integers or a product with a reciprocal rate; std::to_string      *)
(* rounds to six decimals, which absorbs the binary rounding of such       *)
(* values.                                                                 *)
(***************************************************************************)
EXTENDS Integers, Sequences, FiniteSets

(***************************************************************************)
(* Bounds                                                                  *)
(***************************************************************************)
MaxRows == 3
MaxAdds == 5
MaxCapacity == 3
MaxStratumAdds == 102
MaxSnapshotAdds == 2
MaxCalls == 2
MaxColumns == 2
MaxValues == 4

(***************************************************************************)
(* Arithmetic on doubles                                                   *)
(***************************************************************************)
Abs(x) == IF x < 0 THEN -x ELSE x

Min2(a, b) == IF a < b THEN a ELSE b

RECURSIVE GCD(_, _)
GCD(a, b) == IF b = 0 THEN a ELSE GCD(b, a % b)

Rat(n, d) ==
    LET g == GCD(Abs(n), Abs(d))
        s == IF d < 0 THEN -1 ELSE 1
    IN  IF n = 0 THEN <<0, 1>> ELSE <<(s * n) \div g, (s * d) \div g>>

Zero == <<0, 1>>
One == <<1, 1>>
FromInt(i) == <<i, 1>>

RAdd(a, b) == Rat(a[1] * b[2] + b[1] * a[2], a[2] * b[2])
RMul(a, b) == Rat(a[1] * b[1], a[2] * b[2])
RDiv(a, b) == Rat(a[1] * b[2], a[2] * b[1])
RLess(a, b) == a[1] * b[2] < b[1] * a[2]

(***************************************************************************)
(* std::stod and std::to_string                                            *)
(***************************************************************************)
Digits == <<"0", "1", "2", "3", "4", "5", "6", "7", "8", "9">>

IsDigit(c) == \E i \in 1..10 : Digits[i] = c

DigitVal(c) == (CHOOSE i \in 1..10 : Digits[i] = c) - 1

IsSpace(c) == c \in {" ", "\t", "\n", "\r"}

Drop(s, k) == SubSeq(s, k + 1, Len(s))

RECURSIVE SpacePrefix(_)
SpacePrefix(s) ==
    IF s # <<>> /\ IsSpace(Head(s)) THEN 1 + SpacePrefix(Tail(s)) ELSE 0

RECURSIVE DigitPrefix(_)
DigitPrefix(s) ==
    IF s # <<>> /\ IsDigit(Head(s)) THEN 1 + DigitPrefix(Tail(s)) ELSE 0

RECURSIVE DigitsToNat(_)
DigitsToNat(ds) ==
    IF ds = <<>> THEN 0
    ELSE DigitsToNat(SubSeq(ds, 1, Len(ds) - 1)) * 10 + DigitVal(ds[Len(ds)])

RECURSIVE Pow10(_)
Pow10(k) == IF k = 0 THEN 1 ELSE 10 * Pow10(k - 1)

\* A std::stod that reads a text without digits as 0.
stod_ZeroWithoutDigits(str) ==
    LET s1 == Drop(str, SpacePrefix(str))
        neg == s1 # <<>> /\ Head(s1) = "-"
        s2 == IF s1 # <<>> /\ Head(s1) \in {"-", "+"} THEN Tail(s1) ELSE s1
        ni == DigitPrefix(s2)
        s3 == Drop(s2, ni)
        dot == s3 # <<>> /\ Head(s3) = "."
        nf == IF dot THEN DigitPrefix(Tail(s3)) ELSE 0
        ip == DigitsToNat(SubSeq(s2, 1, ni))
        fp == IF nf = 0 THEN 0 ELSE DigitsToNat(SubSeq(Tail(s3), 1, nf))
        mag == RAdd(FromInt(ip), Rat(fp, Pow10(nf)))
    IN  [ok |-> TRUE, val |-> IF neg THEN RMul(FromInt(-1), mag) ELSE mag]

\* std::stod: skips leading white space, reads an optional sign and the
\* longest decimal prefix; throws std::invalid_argument (ok = FALSE) when no
\* digit can be read.  The cell alphabet of the model has no exponent, hex,
\* inf or nan spellings.
stod(str) ==
    LET s1 == Drop(str, SpacePrefix(str))
        neg == s1 # <<>> /\ Head(s1) = "-"
        s2 == IF s1 # <<>> /\ Head(s1) \in {"-", "+"} THEN Tail(s1) ELSE s1
        ni == DigitPrefix(s2)
        s3 == Drop(s2, ni)
        dot == s3 # <<>> /\ Head(s3) = "."
        nf == IF dot THEN DigitPrefix(Tail(s3)) ELSE 0
        ip == DigitsToNat(SubSeq(s2, 1, ni))
        fp == IF nf = 0 THEN 0 ELSE DigitsToNat(SubSeq(Tail(s3), 1, nf))
        mag == RAdd(FromInt(ip), Rat(fp, Pow10(nf)))
    IN  IF ni + nf = 0 THEN [ok |-> FALSE, val |-> Zero]
        ELSE [ok |-> TRUE, val |-> IF neg THEN RMul(FromInt(-1), mag) ELSE mag]

RECURSIVE NatToDigits(_)
NatToDigits(n) ==
    IF n < 10 THEN <<Digits[n + 1]>>
    ELSE Append(NatToDigits(n \div 10), Digits[(n % 10) + 1])

RECURSIVE PadLeft(_, _)
PadLeft(ds, w) == IF Len(ds) >= w THEN ds ELSE PadLeft(<<"0">> \o ds, w)

\* std::to_string(double): printf "%f", six digits after the point.
to_string(x) ==
    LET a == Abs(x[1])
        d == x[2]
        f0 == ((a % d) * 1000000 + (d \div 2)) \div d
        ip == (a \div d) + (IF f0 = 1000000 THEN 1 ELSE 0)
        fp == IF f0 = 1000000 THEN 0 ELSE f0
    IN  (IF x[1] < 0 THEN <<"-">> ELSE <<>>)
            \o NatToDigits(ip) \o <<".">> \o PadLeft(NatToDigits(fp), 6)

(***************************************************************************)
(* Small helpers on functions and sequences                                *)
(***************************************************************************)
Put(f, k, v) == [x \in (DOMAIN f) \cup {k} |-> IF x = k THEN v ELSE f[x]]

EmptyMap == [x \in {} |-> 0]

Range(s) == {s[i] : i \in DOMAIN s}

\* The iteration orders an unordered container over the keys S may have.
Orders(S) ==
    {o \in [1..Cardinality(S) -> S] : \A i, j \in DOMAIN o : i # j => o[i] # o[j]}

(***************************************************************************)
(* query/aggregator.hpp                                                    *)
(***************************************************************************)
\* std::numeric_limits<double>::max(), the initial value of MinAggregator::min
\* (never observable: has_value guards it).
DoubleMax == 2147483647

CountAggregator == [type |-> "COUNT", count |-> 0]
SumAggregator == [type |-> "SUM", sum |-> Zero]
AvgAggregator == [type |-> "AVG", sum |-> Zero, count |-> 0]
MinAggregator == [type |-> "MIN", min |-> FromInt(DoubleMax), has_value |-> FALSE]
MaxAggregator == [type |-> "MAX", max |-> FromInt(-DoubleMax), has_value |-> FALSE]

\* Aggregator::addValue with a MinAggregator that keeps its first value.
Aggregator_addValue_MinKeepsFirst(a, value) ==
    CASE a.type = "COUNT" -> [a EXCEPT !.count = @ + 1]
      [] a.type = "SUM" -> [a EXCEPT !.sum = RAdd(@, value)]
      [] a.type = "AVG" -> [a EXCEPT !.sum = RAdd(@, value), !.count = @ + 1]
      [] a.type = "MIN" ->
            [a EXCEPT !.min = IF a.has_value THEN @ ELSE value,
                      !.has_value = TRUE]
      [] a.type = "MAX" ->
            [a EXCEPT !.max = IF a.has_value THEN (IF RLess(@, value) THEN value ELSE @) ELSE value,
                      !.has_value = TRUE]

\* Aggregator::addValue of the five variants.
Aggregator_addValue(a, value) ==
    CASE a.type = "COUNT" -> [a EXCEPT !.count = @ + 1]
      [] a.type = "SUM" -> [a EXCEPT !.sum = RAdd(@, value)]
      [] a.type = "AVG" -> [a EXCEPT !.sum = RAdd(@, value), !.count = @ + 1]
      [] a.type = "MIN" ->
            [a EXCEPT !.min = IF a.has_value /\ ~RLess(value, @) THEN @ ELSE value,
                      !.has_value = TRUE]
      [] a.type = "MAX" ->
            [a EXCEPT !.max = IF a.has_value THEN (IF RLess(@, value) THEN value ELSE @) ELSE value,
                      !.has_value = TRUE]

\* Aggregator::getResult with an AvgAggregator that returns its sum.
Aggregator_getResult_AvgIsSum(a) ==
    CASE a.type = "COUNT" -> FromInt(a.count)
      [] a.type = "SUM" -> a.sum
      [] a.type = "AVG" -> a.sum
      [] a.type = "MIN" -> IF a.has_value THEN a.min ELSE Zero
      [] a.type = "MAX" -> IF a.has_value THEN a.max ELSE Zero

\* Aggregator::getResult of the five variants.
Aggregator_getResult(a) ==
    CASE a.type = "COUNT" -> FromInt(a.count)
      [] a.type = "SUM" -> a.sum
      [] a.type = "AVG" ->
            IF a.count > 0 THEN RDiv(a.sum, FromInt(a.count)) ELSE Zero
      [] a.type = "MIN" -> IF a.has_value THEN a.min ELSE Zero
      [] a.type = "MAX" -> IF a.has_value THEN a.max ELSE Zero

\* A freshly constructed AggregateResult.
AggregateResult == [aggregators |-> EmptyMap, group_by_values |-> <<>>]

\* AggregateResult::addAggregator: aggregators[column] = a fresh aggregator
\* of the given type, replacing any aggregator already stored under column.
addAggregator(b, column, type) ==
    CASE type = "COUNT" -> [b EXCEPT !.aggregators = Put(@, column, CountAggregator)]
      [] type = "SUM" -> [b EXCEPT !.aggregators = Put(@, column, SumAggregator)]
      [] type = "AVG" -> [b EXCEPT !.aggregators = Put(@, column, AvgAggregator)]
      [] type = "MIN" -> [b EXCEPT !.aggregators = Put(@, column, MinAggregator)]
      [] type = "MAX" -> [b EXCEPT !.aggregators = Put(@, column, MaxAggregator)]
      [] OTHER -> b

\* AggregateResult::addValue
addValue(b, column, value) ==
    IF column \in DOMAIN b.aggregators
    THEN [b EXCEPT !.aggregators[column] = Aggregator_addValue(@, value)]
    ELSE b

\* AggregateResult::getResult
getResult(b, column) ==
    IF column \in DOMAIN b.aggregators
    THEN Aggregator_getResult(b.aggregators[column])
    ELSE Zero

setGroupByValues(b, values) == [b EXCEPT !.group_by_values = values]

(***************************************************************************)
(* core/sampling.hpp                                                       *)
(*                                                                         *)
(* A constructor yields [ok |-> FALSE] when it throws                      *)
(* std::invalid_argument and [ok |-> TRUE, obj |-> the object] otherwise.  *)
(* add on a sampler that draws random numbers yields the set of states a   *)
(* draw can lead to.                                                       *)
(***************************************************************************)
\* Reservoir size of each stratum of a StratifiedSampling.
DefaultStratumSize == 100

SimpleRandomSampling(rate) ==
    IF ~RLess(Zero, rate) \/ RLess(One, rate)
    THEN [ok |-> FALSE]
    ELSE [ok |-> TRUE,
          obj |-> [kind |-> "RANDOM", sampling_rate |-> rate, sample |-> <<>>]]

\* SimpleRandomSampling::add that puts an admitted row in front.
SimpleRandomSampling_add_AtFront(s, item) ==
    (IF RLess(Zero, s.sampling_rate)
        THEN {[s EXCEPT !.sample = <<item>> \o @]} ELSE {})
    \cup (IF RLess(s.sampling_rate, One) THEN {s} ELSE {})

\* dist(gen) is uniform on [0, 1): the row can be admitted when 0 < rate and
\* can be dropped when rate < 1.
SimpleRandomSampling_add(s, item) ==
    (IF RLess(Zero, s.sampling_rate)
        THEN {[s EXCEPT !.sample = Append(@, item)]} ELSE {})
    \cup (IF RLess(s.sampling_rate, One) THEN {s} ELSE {})

SystematicSampling(step) ==
    IF step < 1
    THEN [ok |-> FALSE]
    ELSE [ok |-> TRUE,
          obj |-> [kind |-> "SYSTEMATIC", step_size |-> step,
                   current_count |-> 0, sample |-> <<>>]]

SystematicSampling_add(s, item) ==
    LET c == s.current_count + 1
    IN  [s EXCEPT !.current_count = c,
                  !.sample = IF c > 0 /\ c % s.step_size = 0
                             THEN Append(@, item) ELSE @]

\* SystematicSampling::clear that leaves current_count alone.
SystematicSampling_clear_KeepsCount(s) == [s EXCEPT !.sample = <<>>]

SystematicSampling_clear(s) == [s EXCEPT !.sample = <<>>, !.current_count = 0]

SystematicSampling_getSamplingRate(s) == Rat(1, s.step_size)

ReservoirSample(size) ==
    [kind |-> "RESERVOIR", reservoir |-> <<>>, max_size |-> size, total_seen |-> 0]

\* ReservoirSample::add that still appends when the reservoir is full.
ReservoirSample_add_OffByOne(s, item) ==
    LET seen == s.total_seen + 1
    IN  IF Len(s.reservoir) <= s.max_size
        THEN {[s EXCEPT !.total_seen = seen, !.reservoir = Append(@, item)]}
        ELSE {[s EXCEPT !.total_seen = seen,
                        !.reservoir = IF j < s.max_size
                                      THEN [@ EXCEPT ![j + 1] = item] ELSE @]
                : j \in 0..(seen - 1)}

\* ReservoirSample::add that, when full, drops the oldest row and appends.
ReservoirSample_add_SlidesWindow(s, item) ==
    LET seen == s.total_seen + 1
    IN  IF Len(s.reservoir) < s.max_size
        THEN {[s EXCEPT !.total_seen = seen, !.reservoir = Append(@, item)]}
        ELSE {[s EXCEPT !.total_seen = seen,
                        !.reservoir = IF @ = <<>> THEN @ ELSE Append(Tail(@), item)]}

\* ReservoirSample::add: j is drawn from [0, total_seen - 1].
ReservoirSample_add(s, item) ==
    LET seen == s.total_seen + 1
    IN  IF Len(s.reservoir) < s.max_size
        THEN {[s EXCEPT !.total_seen = seen, !.reservoir = Append(@, item)]}
        ELSE {[s EXCEPT !.total_seen = seen,
                        !.reservoir = IF j < s.max_size
                                      THEN [@ EXCEPT ![j + 1] = item] ELSE @]
                : j \in 0..(seen - 1)}

\* ReservoirSample::clear that leaves total_seen alone.
ReservoirSample_clear_KeepsSeen(s) == [s EXCEPT !.reservoir = <<>>]

ReservoirSample_clear(s) == [s EXCEPT !.reservoir = <<>>, !.total_seen = 0]

\* ReservoirSample::getSamplingRate that divides the capacity by total_seen.
ReservoirSample_getSamplingRate_Capacity(s) ==
    IF s.total_seen = 0 THEN Zero ELSE Rat(s.max_size, s.total_seen)

ReservoirSample_getSamplingRate(s) ==
    IF s.total_seen = 0 THEN Zero ELSE Rat(Len(s.reservoir), s.total_seen)

\* column is the stratification column the executor's key_extractor captures.
StratifiedSampling(rate, column) ==
    IF ~RLess(Zero, rate) \/ RLess(One, rate)
    THEN [ok |-> FALSE]
    ELSE [ok |-> TRUE,
          obj |-> [kind |-> "STRATIFIED", sampling_rate |-> rate,
                   strata |-> EmptyMap, column |-> column]]

\* StratifiedSampling::add that admits the row at the configured rate.
StratifiedSampling_add_AtRate(s, stratum_key, item) ==
    LET strata1 == IF stratum_key \in DOMAIN s.strata THEN s.strata
                   ELSE Put(s.strata, stratum_key, ReservoirSample(DefaultStratumSize))
    IN  {[s EXCEPT !.strata = Put(strata1, stratum_key, r)]
            : r \in ReservoirSample_add(strata1[stratum_key], item)}
        \cup (IF RLess(s.sampling_rate, One) THEN {s} ELSE {})

\* StratifiedSampling::add for a row whose key the extractor returned.
StratifiedSampling_add(s, stratum_key, item) ==
    LET strata1 == IF stratum_key \in DOMAIN s.strata THEN s.strata
                   ELSE Put(s.strata, stratum_key, ReservoirSample(DefaultStratumSize))
    IN  {[s EXCEPT !.strata = Put(strata1, stratum_key, r)]
            : r \in ReservoirSample_add(strata1[stratum_key], item)}

RECURSIVE ConcatStrata(_, _)
ConcatStrata(strata, order) ==
    IF order = <<>> THEN <<>>
    ELSE strata[Head(order)].reservoir \o ConcatStrata(strata, Tail(order))

\* StratifiedSampling::getSample: the strata are visited in the hash order
\* of the map, any order of its keys.
StratifiedSampling_getSample(s) ==
    {ConcatStrata(s.strata, o) : o \in Orders(DOMAIN s.strata)}

\* The null sampler pointer.
NoSampler == [kind |-> "NONE"]

\* SamplingStrategy::getSample through the virtual call.
getSample(s) ==
    CASE s.kind = "RANDOM" -> {s.sample}
      [] s.kind = "SYSTEMATIC" -> {s.sample}
      [] s.kind = "RESERVOIR" -> {s.reservoir}
      [] s.kind = "STRATIFIED" -> StratifiedSampling_getSample(s)

\* getSamplingRate that reports, for a stratified sampler, the observed rate
\* of one of its strata.
getSamplingRate_StratumObserved(s) ==
    CASE s.kind = "RANDOM" -> s.sampling_rate
      [] s.kind = "SYSTEMATIC" -> SystematicSampling_getSamplingRate(s)
      [] s.kind = "RESERVOIR" -> ReservoirSample_getSamplingRate(s)
      [] s.kind = "STRATIFIED" ->
            IF DOMAIN s.strata = {} THEN Zero
            ELSE ReservoirSample_getSamplingRate(
                    s.strata[CHOOSE key \in DOMAIN s.strata : TRUE])

\* SamplingStrategy::getSamplingRate through the virtual call.
getSamplingRate(s) ==
    CASE s.kind = "RANDOM" -> s.sampling_rate
      [] s.kind = "SYSTEMATIC" -> SystematicSampling_getSamplingRate(s)
      [] s.kind = "RESERVOIR" -> ReservoirSample_getSamplingRate(s)
      [] s.kind = "STRATIFIED" -> s.sampling_rate

(***************************************************************************)
(* query/parser.hpp: the query model                                       *)
(***************************************************************************)
\* Column(n, a, agg)
Column(n, a, agg) == [name |-> n, alias |-> a, aggregation |-> agg]

\* Sampling::Sampling()
Sampling == [method |-> "NONE", rate |-> One, size |-> 0, stratification_column |-> ""]

\* QueryParser::parseSampling on a clause the sampling regex has matched:
\* shape is the alternative that matched, int the integer of a RESERVOIR or
\* SYSTEMATIC clause, pct the number before '%', col the STRATIFIED BY column.
parseSampling(sampling, clause) ==
    CASE clause.shape = "RESERVOIR" ->
            [sampling EXCEPT !.method = "RESERVOIR", !.size = clause.int]
      [] clause.shape = "SYSTEMATIC" ->
            [sampling EXCEPT !.method = "SYSTEMATIC", !.size = clause.int]
      [] clause.shape = "STRATIFIED" ->
            [sampling EXCEPT !.method = "STRATIFIED",
                             !.stratification_column = clause.col,
                             !.rate = RDiv(clause.pct, FromInt(100))]
      [] clause.shape = "PERCENT" ->
            [sampling EXCEPT !.method = "RANDOM",
                             !.rate = RDiv(clause.pct, FromInt(100))]

\* Sampling::validate: TRUE when it returns, FALSE when it throws ParseError.
Sampling_validate(s) ==
    /\ ~(s.method = "RANDOM" /\ (~RLess(Zero, s.rate) \/ RLess(One, s.rate)))
    /\ ~(s.method = "RESERVOIR" /\ s.size = 0)

\* Query::validate without the GROUP BY requirement.
Query_validate_NoGroupByRule(q) ==
    /\ q.table_name # ""
    /\ Sampling_validate(q.sampling)

\* Query::validate: TRUE when it returns, FALSE when it throws ParseError.
Query_validate(q) ==
    LET has_aggregation ==
            \E i \in DOMAIN q.columns : q.columns[i].aggregation # "NONE"
        has_non_agg_column ==
            \E i \in DOMAIN q.columns :
                q.columns[i].aggregation = "NONE" /\ q.columns[i].name # "*"
    IN  /\ q.table_name # ""
        /\ ~(has_non_agg_column /\ has_aggregation /\ q.group_by_columns = <<>>)
        /\ Sampling_validate(q.sampling)

(***************************************************************************)
(* utils/string_utils.hpp and the std::string operations of the parser     *)
(* Strings are sequences of characters; positions count from 0 as in C++.  *)
(***************************************************************************)
\* std::string::npos: larger than every position.
NPos == 1000000

LowerCase ==
    <<"a", "b", "c", "d", "e", "f", "g", "h", "i", "j", "k", "l", "m",
      "n", "o", "p", "q", "r", "s", "t", "u", "v", "w", "x", "y", "z">>

UpperCase ==
    <<"A", "B", "C", "D", "E", "F", "G", "H", "I", "J", "K", "L", "M",
      "N", "O", "P", "Q", "R", "S", "T", "U", "V", "W", "X", "Y", "Z">>

\* ::toupper
ToUpperChar(c) ==
    IF \E i \in 1..26 : LowerCase[i] = c
    THEN UpperCase[CHOOSE i \in 1..26 : LowerCase[i] = c]
    ELSE c

\* utils::toUpper
toUpper(s) == [i \in 1..Len(s) |-> ToUpperChar(s[i])]

\* s.compare(pos, pat.size(), pat) == 0
StartsWith(s, pos, pat) ==
    /\ pos + Len(pat) <= Len(s)
    /\ SubSeq(s, pos + 1, pos + Len(pat)) = pat

\* std::string::find(pat, from)
find(s, pat, from) ==
    LET hits == {p \in from..(Len(s) - Len(pat)) : StartsWith(s, p, pat)}
    IN  IF hits = {} THEN NPos
        ELSE CHOOSE p \in hits : \A q \in hits : p <= q

\* std::string::substr(pos, count) for pos <= size; a count that wrapped
\* around below zero is a huge size_t and reads to the end of the string.
substr(s, pos, count) ==
    SubSeq(s, pos + 1,
           IF count < 0 \/ pos + count > Len(s) THEN Len(s) ELSE pos + count)

\* utils::trim: strips " \t\n\r" from both ends.
trim(s) ==
    LET keep == {i \in 1..Len(s) : ~IsSpace(s[i])}
    IN  IF keep = {} THEN <<>>
        ELSE SubSeq(s, CHOOSE i \in keep : \A j \in keep : i <= j,
                       CHOOSE i \in keep : \A j \in keep : j <= i)

\* The parts a loop of std::getline(ss, part, delimiter) reads: no part is
\* read once the stream is at its end.
RECURSIVE getline(_, _)
getline(s, delimiter) ==
    IF s = <<>> THEN <<>>
    ELSE LET p == find(s, <<delimiter>>, 0)
         IN  IF p = NPos THEN <<s>>
             ELSE <<SubSeq(s, 1, p)>> \o getline(substr(s, p + 1, NPos), delimiter)

\* The character classes \s, \d and \w of std::regex.
InClass(c, class) ==
    CASE class = "s" -> IsSpace(c)
      [] class = "d" -> IsDigit(c)
      [] class = "w" -> \/ IsDigit(c)
                        \/ c = "_"
                        \/ \E i \in 1..26 : c = LowerCase[i] \/ c = UpperCase[i]

\* The position after the longest run of characters of the class that
\* starts at pos: a greedy \s*, \d* or \w*.
RECURSIVE Skip(_, _, _)
Skip(s, pos, class) ==
    IF pos < Len(s) /\ InClass(s[pos + 1], class) THEN Skip(s, pos + 1, class)
    ELSE pos

(***************************************************************************)
(* query/parser.hpp: QueryParser                                           *)
(* The local operators pass on the positions a regular expression has      *)
(* reached, from left to right.                                            *)
(***************************************************************************)
\* The std::string values of the Query fields, written as model strings:
\* Text[n] is the character sequence of the string n.
Text ==
    LET table ==
            { <<"", <<>>>>,
              <<"*", <<"*">>>>,
              <<"AVG", <<"A", "V", "G">>>>,
              <<"COUNT", <<"C", "O", "U", "N", "T">>>>,
              <<"COUNT(*)", <<"C", "O", "U", "N", "T", "(", "*", ")">>>>,
              <<"MAX", <<"M", "A", "X">>>>,
              <<"MIN", <<"M", "I", "N">>>>,
              <<"MIN(VALUE)", <<"M", "I", "N", "(", "V", "A", "L", "U", "E", ")">>>>,
              <<"NONE", <<"N", "O", "N", "E">>>>,
              <<"SUM", <<"S", "U", "M">>>>,
              <<"average", <<"a", "v", "e", "r", "a", "g", "e">>>>,
              <<"big_", <<"b", "i", "g", "_">>>>,
              <<"category", <<"c", "a", "t", "e", "g", "o", "r", "y">>>>,
              <<"category SAMPLE 15.5%", <<"c", "a", "t", "e", "g", "o", "r", "y", " ", "S", "A", "M", "P", "L", "E", " ", "1", "5", ".", "5", "%">>>>,
              <<"data", <<"d", "a", "t", "a">>>>,
              <<"my_table", <<"m", "y", "_", "t", "a", "b", "l", "e">>>>,
              <<"total", <<"t", "o", "t", "a", "l">>>>,
              <<"value", <<"v", "a", "l", "u", "e">>>>,
              <<"value SAMPLE 15.5%", <<"v", "a", "l", "u", "e", " ", "S", "A", "M", "P", "L", "E", " ", "1", "5", ".", "5", "%">>>> }
    IN  [n \in {t[1] : t \in table} |-> (CHOOSE t \in table : t[1] = n)[2]]

\* The model string of a character sequence.
Intern(s) == CHOOSE n \in DOMAIN Text : Text[n] = s

AggregateFunctions == {<<"C", "O", "U", "N", "T">>, <<"S", "U", "M">>, <<"A", "V", "G">>, <<"M", "I", "N">>, <<"M", "A", "X">>}

\* The length of the function name (COUNT|SUM|AVG|MIN|MAX) the upper-cased
\* text starts with, 0 when it starts with none.
FunctionLength(upper_str) ==
    IF \E f \in AggregateFunctions : StartsWith(upper_str, 0, f)
    THEN Len(CHOOSE f \in AggregateFunctions : StartsWith(upper_str, 0, f))
    ELSE 0

\* std::regex_match(column_str, matches, agg_regex) with
\* agg_regex = (COUNT|SUM|AVG|MIN|MAX)\s*\(([^)]+)\)(?:\s+AS\s+([\w]+))?, icase:
\* matches[1] = func, matches[2] = inner, matches[3] = alias (empty when the
\* AS part is absent).
agg_regex(s) ==
    LET NoMatch == [matched |-> FALSE]
        Matched(func_len, open, close, alias) ==
            [matched |-> TRUE,
             func |-> SubSeq(s, 1, func_len),
             inner |-> SubSeq(s, open + 2, close),
             alias |-> alias]
        \* (?:\s+AS\s+([\w]+))? on a non-empty tail
        Alias(func_len, open, close, tail, as_pos, alias_pos) ==
            IF /\ as_pos >= 1
               /\ StartsWith(toUpper(tail), as_pos, <<"A", "S">>)
               /\ alias_pos >= as_pos + 3
               /\ alias_pos < Len(tail)
               /\ Skip(tail, alias_pos, "w") = Len(tail)
            THEN Matched(func_len, open, close, substr(tail, alias_pos, NPos))
            ELSE NoMatch
        AfterSpaces(func_len, open, close, tail, as_pos) ==
            Alias(func_len, open, close, tail, as_pos, Skip(tail, as_pos + 2, "s"))
        AfterClose(func_len, open, close, tail) ==
            IF tail = <<>> THEN Matched(func_len, open, close, <<>>)
            ELSE AfterSpaces(func_len, open, close, tail, Skip(tail, 0, "s"))
        \* \(([^)]+)\)
        Inner(func_len, open, close) ==
            IF close = NPos \/ close = open + 1 THEN NoMatch
            ELSE AfterClose(func_len, open, close, substr(s, close + 1, NPos))
        AfterFunction(func_len, open) ==
            IF StartsWith(s, open, <<"(">>)
            THEN Inner(func_len, open, find(s, <<")">>, open + 1))
            ELSE NoMatch
        Function(func_len) ==
            IF func_len = 0 THEN NoMatch
            ELSE AfterFunction(func_len, Skip(s, func_len, "s"))
    IN  Function(FunctionLength(toUpper(s)))

\* The body of the loop of parseColumns for one trimmed, non-empty part.
parseColumn(column_str) ==
    LET Aggregate(func, inner_col, alias) ==
            Column(Intern(inner_col),
                   Intern(IF alias = <<>>
                          THEN func \o <<"(">> \o toUpper(inner_col) \o <<")">>
                          ELSE alias),
                   Intern(func))
        Matches(matches) ==
            IF matches.matched
            THEN Aggregate(toUpper(matches.func), trim(matches.inner), matches.alias)
            ELSE Column(Intern(column_str), "", "NONE")
    IN  Matches(agg_regex(column_str))

\* The trimmed, non-empty parts of a comma-separated list.
TrimmedParts(str) ==
    LET parts == getline(str, ",")
    IN  SelectSeq([i \in DOMAIN parts |-> trim(parts[i])], LAMBDA part : part # <<>>)

\* QueryParser::parseColumns
parseColumns(columns_str) ==
    LET parts == TrimmedParts(columns_str)
    IN  [i \in DOMAIN parts |-> parseColumn(parts[i])]

\* QueryParser::parseGroupBy
parseGroupBy(group_by_str) ==
    LET parts == TrimmedParts(group_by_str)
    IN  [i \in DOMAIN parts |-> Intern(parts[i])]

\* A number pattern without the fraction: \d+.
NumberEnd_NoFraction(s, pos) ==
    Skip(s, pos, "d")

\* The end of a match of \d+(?:\.\d+)? that starts at pos; pos when there is
\* none.
NumberEnd(s, pos) ==
    LET Fraction(int_end, frac_end) ==
            IF int_end > pos /\ StartsWith(s, int_end, <<".">>) /\ frac_end > int_end + 1
            THEN frac_end
            ELSE int_end
        Integer(int_end) == Fraction(int_end, Skip(s, int_end + 1, "d"))
    IN  Integer(Skip(s, pos, "d"))

\* (RESERVOIR)\s+(\d+) or (SYSTEMATIC)\s+(\d+) at position p.
IntegerAlternative(s, p, shape, word) ==
    LET Digits1(digits, end) ==
            IF StartsWith(toUpper(s), p, word) /\ digits > p + Len(word) /\ end > digits
            THEN [matched |-> TRUE, shape |-> shape, int |-> SubSeq(s, digits + 1, end)]
            ELSE [matched |-> FALSE]
        Spaces(digits) == Digits1(digits, Skip(s, digits, "d"))
    IN  Spaces(Skip(s, p + Len(word), "s"))

\* (STRATIFIED)\s+BY\s+([\w]+)\s+(\d+(?:\.\d+)?)% at position p.
StratifiedAlternative(s, p) ==
    LET Percent(by, col, col_end, num, num_end) ==
            IF /\ StartsWith(toUpper(s), p, <<"S", "T", "R", "A", "T", "I", "F", "I", "E", "D">>)
               /\ by > p + 10
               /\ StartsWith(toUpper(s), by, <<"B", "Y">>)
               /\ col > by + 2
               /\ col_end > col
               /\ num > col_end
               /\ num_end > num
               /\ StartsWith(s, num_end, <<"%">>)
            THEN [matched |-> TRUE, shape |-> "STRATIFIED",
                  col |-> SubSeq(s, col + 1, col_end),
                  pct |-> SubSeq(s, num + 1, num_end)]
            ELSE [matched |-> FALSE]
        Number(by, col, col_end, num) == Percent(by, col, col_end, num, NumberEnd(s, num))
        ColumnEnd(by, col, col_end) == Number(by, col, col_end, Skip(s, col_end, "s"))
        ColumnStart(by, col) == ColumnEnd(by, col, Skip(s, col, "w"))
        By(by) == ColumnStart(by, Skip(s, by + 2, "s"))
    IN  By(Skip(s, p + 10, "s"))

\* (\d+(?:\.\d+)?)% at position p.
PercentAlternative(s, p) ==
    LET Percent(end) ==
            IF end > p /\ StartsWith(s, end, <<"%">>)
            THEN [matched |-> TRUE, shape |-> "PERCENT", pct |-> SubSeq(s, p + 1, end)]
            ELSE [matched |-> FALSE]
    IN  Percent(NumberEnd(s, p))

\* A match of sample_regex that starts at position pos:
\* \s*(?:(RESERVOIR)\s+(\d+)|(SYSTEMATIC)\s+(\d+)
\*       |(STRATIFIED)\s+BY\s+([\w]+)\s+(\d+(?:\.\d+)?)%|(\d+(?:\.\d+)?)%), icase.
\* The alternatives are tried in this order.
SampleMatchAt(s, pos) ==
    LET First(reservoir, systematic, stratified, percent) ==
            IF reservoir.matched THEN reservoir
            ELSE IF systematic.matched THEN systematic
            ELSE IF stratified.matched THEN stratified
            ELSE percent
        Alternatives(p) ==
            First(IntegerAlternative(s, p, "RESERVOIR", <<"R", "E", "S", "E", "R", "V", "O", "I", "R">>),
                  IntegerAlternative(s, p, "SYSTEMATIC", <<"S", "Y", "S", "T", "E", "M", "A", "T", "I", "C">>),
                  StratifiedAlternative(s, p),
                  PercentAlternative(s, p))
    IN  Alternatives(Skip(s, pos, "s"))

\* std::regex_search(sample_str, matches, sample_regex): the match at the
\* leftmost position that has one.
sample_regex(s) ==
    IF \E pos \in 0..Len(s) : SampleMatchAt(s, pos).matched
    THEN CHOOSE m \in {SampleMatchAt(s, pos) : pos \in 0..Len(s)} :
            /\ m.matched
            /\ \E pos \in 0..Len(s) :
                /\ m = SampleMatchAt(s, pos)
                /\ \A q \in 0..(pos - 1) : ~SampleMatchAt(s, q).matched
    ELSE [matched |-> FALSE]

\* The digits of ULLONG_MAX = 2^64 - 1.
ULLongMax == <<"1", "8", "4", "4", "6", "7", "4", "4", "0", "7", "3", "7", "0", "9", "5", "5", "1", "6", "1", "5">>

\* std::stoull of a run of digits: ok = FALSE when it throws
\* std::out_of_range.
stoull(ds) ==
    LET Above(z) ==
            \E i \in 1..Len(z) :
                /\ Len(z) = Len(ULLongMax)
                /\ DigitVal(z[i]) > DigitVal(ULLongMax[i])
                /\ \A j \in 1..(i - 1) : z[j] = ULLongMax[j]
        Significant(z) ==
            IF Len(z) > Len(ULLongMax) \/ Above(z) THEN [ok |-> FALSE, val |-> 0]
            ELSE [ok |-> TRUE, val |-> DigitsToNat(z)]
    IN  Significant(Drop(ds, CHOOSE k \in 0..Len(ds) :
                                /\ \A i \in 1..k : ds[i] = "0"
                                /\ k < Len(ds) => ds[k + 1] # "0"))

\* An outcome of a parser function: exc names the exception it throws, ""
\* when it returns.
Raise(exc) == [exc |-> exc]

\* The part of QueryParser::parseSampling before the assignments: the regex
\* search and the std::stoull / std::stod conversions of the captures.
SamplingClause(sample_str) ==
    LET Integer(shape, n) ==
            IF n.ok THEN [exc |-> "", clause |-> [shape |-> shape, int |-> n.val]]
            ELSE Raise("std::out_of_range")
        Matches(matches) ==
            IF ~matches.matched THEN Raise("ParseError")
            ELSE IF matches.shape \in {"RESERVOIR", "SYSTEMATIC"}
            THEN Integer(matches.shape, stoull(matches.int))
            ELSE IF matches.shape = "STRATIFIED"
            THEN [exc |-> "",
                  clause |-> [shape |-> "STRATIFIED", col |-> Intern(matches.col),
                              pct |-> stod(matches.pct).val]]
            ELSE [exc |-> "",
                  clause |-> [shape |-> "PERCENT", pct |-> stod(matches.pct).val]]
    IN  Matches(sample_regex(sample_str))

\* QueryParser::parseFromAndOtherClauses on a query that has the default
\* sampling.
parseFromAndOtherClauses(rest_str) ==
    LET Clauses(group_by_pos, sample_pos, sc) ==
            IF sc.exc # "" THEN Raise(sc.exc)
            ELSE [exc |-> "",
                  table_name |->
                      Intern(trim(substr(rest_str, 0, Min2(group_by_pos, sample_pos)))),
                  group_by_columns |->
                      IF group_by_pos = NPos THEN <<>>
                      ELSE parseGroupBy(substr(rest_str, group_by_pos + 8,
                                               (IF sample_pos > group_by_pos
                                                THEN sample_pos ELSE NPos)
                                               - (group_by_pos + 8))),
                  sampling |-> IF sample_pos = NPos THEN Sampling
                               ELSE parseSampling(Sampling, sc.clause)]
        Positions(group_by_pos, sample_pos) ==
            Clauses(group_by_pos, sample_pos,
                    IF sample_pos = NPos THEN [exc |-> ""]
                    ELSE SamplingClause(substr(rest_str, sample_pos + 6, NPos)))
        Upper(upper_rest) ==
            Positions(find(upper_rest, <<"G", "R", "O", "U", "P", " ", "B", "Y">>, 0), find(upper_rest, <<"S", "A", "M", "P", "L", "E">>, 0))
    IN  Upper(toUpper(rest_str))

\* QueryParser::findKeyword
findKeyword(upper_str, keyword) ==
    LET Found(pos) ==
            IF pos = NPos THEN Raise("ParseError") ELSE [exc |-> "", pos |-> pos]
    IN  Found(find(upper_str, keyword, 0))

\* The try block of QueryParser::parse.
ParseBody(query_str) ==
    LET Validated(q) ==
            IF ~Query_validate(q) THEN Raise("ParseError")
            ELSE [exc |-> "", query |-> q]
        Clauses(select_clause, rest) ==
            IF rest.exc # "" THEN Raise(rest.exc)
            ELSE Validated([columns |-> parseColumns(select_clause),
                            table_name |-> rest.table_name,
                            group_by_columns |-> rest.group_by_columns,
                            sampling |-> rest.sampling])
        Keywords(select, from) ==
            IF select.exc # "" THEN Raise(select.exc)
            ELSE IF from.exc # "" THEN Raise(from.exc)
            ELSE Clauses(substr(query_str, select.pos + 6, from.pos - (select.pos + 6)),
                         parseFromAndOtherClauses(substr(query_str, from.pos + 4, NPos)))
        Upper(upper_query) ==
            Keywords(findKeyword(upper_query, <<"S", "E", "L", "E", "C", "T">>), findKeyword(upper_query, <<"F", "R", "O", "M">>))
    IN  Upper(toUpper(query_str))

\* QueryParser::parse without the catch block.
parse_NoCatch(query_str) ==
    ParseBody(query_str)

\* QueryParser::parse: every std::exception of the try block is rethrown
\* as a ParseError.
parse(query_str) ==
    LET Catch(body) == IF body.exc # "" THEN Raise("ParseError") ELSE body
    IN  Catch(ParseBody(query_str))

(***************************************************************************)
(* query/executor.hpp                                                      *)
(***************************************************************************)
\* QueryExecutor::setupSampling: the sampler it builds, or ok = FALSE when
\* the sampler's constructor throws std::invalid_argument.
setupSampling(sampling) ==
    CASE sampling.method = "NONE" -> [ok |-> TRUE, obj |-> NoSampler]
      [] sampling.method = "RANDOM" -> SimpleRandomSampling(sampling.rate)
      [] sampling.method = "SYSTEMATIC" ->
            \* static_cast<size_t>(1.0 / rate) truncates
            SystematicSampling(RDiv(One, sampling.rate)[1] \div RDiv(One, sampling.rate)[2])
      [] sampling.method = "RESERVOIR" ->
            [ok |-> TRUE, obj |-> ReservoirSample(sampling.size)]
      [] sampling.method = "STRATIFIED" ->
            StratifiedSampling(sampling.rate, sampling.stratification_column)

\* sampler->add(row): the states the sampler can be in afterwards; threw
\* when the key extractor's row.values.at() throws std::out_of_range.
Sampler_add(s, row) ==
    CASE s.kind = "RANDOM" ->
            {[threw |-> FALSE, s |-> t] : t \in SimpleRandomSampling_add(s, row)}
      [] s.kind = "SYSTEMATIC" ->
            {[threw |-> FALSE, s |-> SystematicSampling_add(s, row)]}
      [] s.kind = "RESERVOIR" ->
            {[threw |-> FALSE, s |-> t] : t \in ReservoirSample_add(s, row)}
      [] s.kind = "STRATIFIED" ->
            IF s.column \in DOMAIN row
            THEN {[threw |-> FALSE, s |-> t]
                    : t \in StratifiedSampling_add(s, row[s.column], row)}
            ELSE {[threw |-> TRUE, s |-> s]}

\* The loop "for row in data: sampler->add(row)" of execute.
RECURSIVE FeedSampler(_, _)
FeedSampler(s, rows) ==
    IF rows = <<>> THEN {[threw |-> FALSE, s |-> s]}
    ELSE UNION {IF o.threw THEN {o} ELSE FeedSampler(o.s, Tail(rows))
                    : o \in Sampler_add(s, Head(rows))}

DefaultKey == <<"d", "e", "f", "a", "u", "l", "t">>
NullText == <<"N", "U", "L", "L">>

\* The group_values vector processRow builds.
RECURSIVE GroupValues(_, _)
GroupValues(group_by_columns, row) ==
    IF group_by_columns = <<>> THEN <<>>
    ELSE <<IF Head(group_by_columns) \in DOMAIN row
           THEN row[Head(group_by_columns)] ELSE NullText>>
         \o GroupValues(Tail(group_by_columns), row)

\* The text processRow streams into ss for the values: each one followed by '|'.
RECURSIVE JoinPipe(_)
JoinPipe(values) ==
    IF values = <<>> THEN <<>>
    ELSE Head(values) \o <<"|">> \o JoinPipe(Tail(values))

GroupKey(query, row) ==
    IF query.group_by_columns = <<>> THEN DefaultKey
    ELSE JoinPipe(GroupValues(query.group_by_columns, row))

\* The loop of processRow that registers an aggregator per aggregated column.
RECURSIVE RegisterAggregators(_, _)
RegisterAggregators(b, columns) ==
    IF columns = <<>> THEN b
    ELSE RegisterAggregators(
            IF Head(columns).aggregation # "NONE"
            THEN addAggregator(b, Head(columns).name, Head(columns).aggregation)
            ELSE b,
            Tail(columns))

\* The loop of processRow that dispatches the row to the group's aggregators.
RECURSIVE DispatchRow(_, _, _)
DispatchRow(b, columns, row) ==
    IF columns = <<>> THEN b
    ELSE LET col == Head(columns)
             b1 == IF col.aggregation = "NONE" THEN b
                   ELSE IF col.aggregation = "COUNT" THEN addValue(b, col.name, One)
                   ELSE IF col.name \in DOMAIN row /\ stod(row[col.name]).ok
                        THEN addValue(b, col.name, stod(row[col.name]).val)
                        ELSE b
         IN  DispatchRow(b1, Tail(columns), row)

\* processRow that drops a row lacking a GROUP BY column.
processRow_DropsRowWithoutGroupColumn(group_results, query, row) ==
    LET group_key == GroupKey(query, row)
        group_values == GroupValues(query.group_by_columns, row)
        gr1 == IF group_key \in DOMAIN group_results THEN group_results
               ELSE Put(group_results, group_key,
                        setGroupByValues(
                            RegisterAggregators(AggregateResult, query.columns),
                            group_values))
    IN  IF \E j \in DOMAIN query.group_by_columns :
                query.group_by_columns[j] \notin DOMAIN row
        THEN group_results
        ELSE Put(gr1, group_key, DispatchRow(gr1[group_key], query.columns, row))

\* QueryExecutor::processRow
processRow(group_results, query, row) ==
    LET group_key == GroupKey(query, row)
        group_values == GroupValues(query.group_by_columns, row)
        gr1 == IF group_key \in DOMAIN group_results THEN group_results
               ELSE Put(group_results, group_key,
                        setGroupByValues(
                            RegisterAggregators(AggregateResult, query.columns),
                            group_values))
    IN  Put(gr1, group_key, DispatchRow(gr1[group_key], query.columns, row))

\* The loop "for row in processed_data: processRow(query, row)" of execute.
RECURSIVE ProcessRows(_, _, _)
ProcessRows(group_results, query, rows) ==
    IF rows = <<>> THEN group_results
    ELSE ProcessRows(processRow(group_results, query, Head(rows)), query, Tail(rows))

\* A header that is always the source name.
ColumnHeader_NameOnly(col) == col.name

\* Header of a column in the result.
ColumnHeader(col) == IF col.alias = "" THEN col.name ELSE col.alias

\* group_by_map[name] of execute: the value of the last group-by column
\* called name, the empty string when there is none.
GroupByMap(group_by_columns, group_values, name) ==
    LET hits == {i \in DOMAIN group_by_columns : group_by_columns[i] = name}
    IN  IF hits = {} THEN <<>>
        ELSE group_values[CHOOSE i \in hits : \A j \in hits : j <= i]

\* ResultCell that rescales every aggregate of a sampled query.
ResultCell_ScalesAll(query, b, col, sampled, scaling_factor) ==
    IF col.aggregation = "NONE"
    THEN GroupByMap(query.group_by_columns, b.group_by_values, col.name)
    ELSE LET v == getResult(b, col.name)
         IN  to_string(IF sampled THEN RMul(v, scaling_factor) ELSE v)

\* One cell of a result row.
ResultCell(query, b, col, sampled, scaling_factor) ==
    IF col.aggregation = "NONE"
    THEN GroupByMap(query.group_by_columns, b.group_by_values, col.name)
    ELSE LET v == getResult(b, col.name)
         IN  to_string(IF sampled /\ col.aggregation \in {"COUNT", "SUM"}
                       THEN RMul(v, scaling_factor) ELSE v)

\* The row execute emits for one bundle.
ResultRow(query, b, sampled, scaling_factor) ==
    [i \in DOMAIN query.columns |->
        ResultCell(query, b, query.columns[i], sampled, scaling_factor)]

\* A default-constructed QueryResult.
QueryResult == [rows |-> <<>>, column_names |-> <<>>, is_approximate |-> FALSE]

\* A scaling factor that is always 1.
ScalingFactor_Unscaled(s) == One

\* The scaling_factor execute computes from the sampler.
ScalingFactor(s) ==
    IF s.kind # "NONE" /\ RLess(Zero, getSamplingRate(s))
    THEN RDiv(One, getSamplingRate(s)) ELSE One

\* Materialize that marks the result approximate only when rows were sampled.
Materialize_ApproxIfRows(group_results, query, s, processed_data, order) ==
    LET gr == ProcessRows(group_results, query, processed_data)
    IN  [rows |-> [k \in DOMAIN order |->
                     ResultRow(query, gr[order[k]], s.kind # "NONE", ScalingFactor(s))],
         column_names |-> [i \in DOMAIN query.columns |-> ColumnHeader(query.columns[i])],
         is_approximate |-> s.kind # "NONE" /\ processed_data # <<>>]

\* The part of execute after the sampling pass, for the member
\* group_results as it is then, a processed row list and an iteration order
\* of group_results.
Materialize(group_results, query, s, processed_data, order) ==
    LET gr == ProcessRows(group_results, query, processed_data)
    IN  [rows |-> [k \in DOMAIN order |->
                     ResultRow(query, gr[order[k]], s.kind # "NONE", ScalingFactor(s))],
         column_names |-> [i \in DOMAIN query.columns |-> ColumnHeader(query.columns[i])],
         is_approximate |-> s.kind # "NONE"]

\* The outcomes of materializing processed_data, one per iteration order.
Finish(group_results, query, s, processed_data) ==
    LET gr == ProcessRows(group_results, query, processed_data)
    IN  {[pc |-> "returned", error |-> "", sampler |-> s, group_results |-> gr,
          result |-> Materialize(group_results, query, s, processed_data, o)]
            : o \in Orders(DOMAIN gr)}

Threw(error, s, group_results) ==
    [pc |-> "threw", error |-> error, sampler |-> s, group_results |-> group_results,
     result |-> QueryResult]

\* QueryExecutor::execute after its first two statements, on the members
\* sampler and group_results as they are then: every way the call can end,
\* with the members it leaves in the executor.
ExecuteBody(members, query, data) ==
    LET setup == setupSampling(query.sampling)
    IN  IF ~setup.ok
        THEN {Threw("std::invalid_argument", members.sampler, members.group_results)}
        ELSE IF setup.obj.kind = "NONE"
        THEN Finish(members.group_results, query, NoSampler, data)
        ELSE UNION {IF f.threw
                    THEN {Threw("std::out_of_range", f.s, members.group_results)}
                    ELSE UNION {Finish(members.group_results, query, f.s, p)
                                    : p \in getSample(f.s)}
                        : f \in FeedSampler(setup.obj, data)}

\* QueryExecutor::execute without group_results.clear() and sampler.reset().
execute_KeepsMembers(members, query, data) ==
    ExecuteBody(members, query, data)

\* QueryExecutor::execute on an executor with the given members: it starts
\* with group_results.clear() and sampler.reset().
execute(members, query, data) ==
    ExecuteBody([sampler |-> NoSampler, group_results |-> EmptyMap], query, data)

(***************************************************************************)
(* Inputs                                                                  *)
(***************************************************************************)
Row2(cat, val) == [c \in {"category", "value"} |-> IF c = "category" THEN cat ELSE val]
RowCat(cat) == [c \in {"category"} |-> cat]
RowVal(val) == [c \in {"value"} |-> val]

\* The rows datasets are built from: numeric and negative values, a value
\* that is empty, one that is not a number, values containing '|', the text
\* NULL, and rows lacking either column.
BaseRows ==
    { Row2(<<"A">>, <<"1">>),
      Row2(<<"B">>, <<"-", "3">>),
      Row2(<<"A", "|">>, <<>>),
      Row2(<<"A">>, <<"|">>),
      RowCat(NullText),
      RowVal(<<"1", "0">>) }

\* The five-row table of tests/query_tests.cpp.
ScenarioTable ==
    << Row2(<<"A">>, <<"1", "0", "0">>),
       Row2(<<"B">>, <<"2", "0", "0">>),
       Row2(<<"A">>, <<"1", "5", "0">>),
       Row2(<<"B">>, <<"2", "5", "0">>),
       Row2(<<"C">>, <<"3", "0", "0">>) >>

\* All tables of at most MaxRows base rows, the five-row table, and a table
\* with a value that starts with a number and one that has none.
Datasets ==
    (UNION {[1..k -> BaseRows] : k \in 0..MaxRows})
        \cup {ScenarioTable,
              <<Row2(<<"A">>, <<"1", "0", "x">>), Row2(<<"A">>, <<"|">>)>>}

CountStar == Column("*", "COUNT(*)", "COUNT")
CountValue == Column("value", "COUNT(VALUE)", "COUNT")
SumValue == Column("value", "SUM(VALUE)", "SUM")
AvgValue == Column("value", "AVG(VALUE)", "AVG")
MinValue == Column("value", "MIN(VALUE)", "MIN")
MaxValue == Column("value", "MAX(VALUE)", "MAX")
RawCategory == Column("category", "", "NONE")
RawValue == Column("value", "", "NONE")

MakeQuery(columns, group_by, sampling) ==
    [columns |-> columns, table_name |-> "data", group_by_columns |-> group_by,
     sampling |-> sampling]

\* The queries parse returns for the select lists, GROUP BY lists and SAMPLE
\* clauses below: those Query::validate accepts.
Queries ==
    LET \* Select lists made of aggregates only.
        AggregateColumnLists ==
            { <<CountStar>>, <<CountValue>>, <<SumValue>>, <<AvgValue>>, <<MinValue>>,
              <<MaxValue>>,
              <<MinValue, MaxValue>>,
              <<Column("value", "total", "SUM"), Column("value", "average", "AVG")>> }
        \* Select lists with raw columns.
        GroupedColumnLists ==
            { <<RawCategory, AvgValue>>,
              <<RawCategory, CountStar, SumValue, AvgValue>>,
              <<RawCategory, RawValue, CountStar>> }
        \* Select lists and GROUP BY lists of the sampled queries.
        SampledShapes ==
            { <<<<CountStar, AvgValue>>, <<>>>>,
              <<<<CountStar, MinValue>>, <<>>>>,
              <<<<CountStar, MaxValue>>, <<>>>>,
              <<<<RawCategory, CountStar, SumValue>>, <<"category">>>> }
        GroupByLists == { <<"category">>, <<"category", "value">> }
        \* SAMPLE clauses as matched by the sampling regex.
        SampleClauses ==
            { [shape |-> "PERCENT", pct |-> FromInt(50)],
              [shape |-> "PERCENT", pct |-> FromInt(100)],
              [shape |-> "RESERVOIR", int |-> 1],
              [shape |-> "RESERVOIR", int |-> 2],
              [shape |-> "SYSTEMATIC", int |-> 1],
              [shape |-> "SYSTEMATIC", int |-> 2],
              [shape |-> "STRATIFIED", col |-> "category", pct |-> FromInt(50)] }
    IN  {q \in {MakeQuery(c, <<>>, Sampling) : c \in AggregateColumnLists}
                \cup {MakeQuery(c, g, Sampling)
                        : c \in GroupedColumnLists \cup {<<AvgValue>>}, g \in GroupByLists}
                \cup {MakeQuery(sh[1], sh[2], parseSampling(Sampling, cl))
                        : sh \in SampledShapes, cl \in SampleClauses}
            : Query_validate(q)}

\* The rows given to the samplers used on their own: one row of each of two
\* strata.
Items == {Row2(<<"A">>, <<"1">>), Row2(<<"B">>, <<"-", "3">>)}


\* Constructor calls of the samplers used on their own; arg is the capacity,
\* the step or the sampling rate in percent.
Ctors ==
    {[kind |-> "RESERVOIR", arg |-> k] : k \in 0..MaxCapacity}
        \cup {[kind |-> "SYSTEMATIC", arg |-> k] : k \in 0..MaxCapacity}
        \cup {[kind |-> "RANDOM", arg |-> r] : r \in {0, 50, 100, 150}}
        \cup {[kind |-> "STRATIFIED", arg |-> r] : r \in {0, 50, 100, 150}}

\* The stratified sampler is built as setupSampling builds it, with the
\* extractor of the column category.
Construct(c) ==
    CASE c.kind = "RESERVOIR" -> [ok |-> TRUE, obj |-> ReservoirSample(c.arg)]
      [] c.kind = "SYSTEMATIC" -> SystematicSampling(c.arg)
      [] c.kind = "RANDOM" -> SimpleRandomSampling(Rat(c.arg, 100))
      [] c.kind = "STRATIFIED" -> StratifiedSampling(Rat(c.arg, 100), "category")

(***************************************************************************)
(* Query strings given to the parser: each fragment carries its text and   *)
(* what it denotes in the grammar SELECT list FROM table [GROUP BY list]   *)
(* [SAMPLE spec].                                                          *)
(***************************************************************************)
\* Select-list items: test ParserHandlesAggregates and variations of case
\* and spacing the column regex admits.
ColumnItems ==
    { [text |-> <<"C", "O", "U", "N", "T", "(", "*", ")">>,
       column |-> Column("*", "COUNT(*)", "COUNT")],
      [text |-> <<"S", "U", "M", "(", "v", "a", "l", "u", "e", ")", " ", "A", "S", " ", "t", "o", "t", "a", "l">>,
       column |-> Column("value", "total", "SUM")],
      [text |-> <<"a", "v", "g", "(", " ", "v", "a", "l", "u", "e", " ", ")", " ", "a", "s", " ", "a", "v", "e", "r", "a", "g", "e">>,
       column |-> Column("value", "average", "AVG")],
      [text |-> <<"M", "i", "n", "(", "v", "a", "l", "u", "e", ")">>,
       column |-> Column("value", "MIN(VALUE)", "MIN")],
      [text |-> <<"c", "a", "t", "e", "g", "o", "r", "y">>,
       column |-> Column("category", "", "NONE")],
      [text |-> <<"*">>,
       column |-> Column("*", "", "NONE")] }

\* Table names with the white space around them; the last one is absent.
TableItems ==
    { [text |-> <<" ", "d", "a", "t", "a">>, name |-> "data"],
      [text |-> <<" ", "m", "y", "_", "t", "a", "b", "l", "e", " ">>, name |-> "my_table"],
      [text |-> <<" ", "b", "i", "g", "_", "s", "a", "m", "p", "l", "e">>, name |-> "big_sample"],
      [text |-> <<" ">>, name |-> ""] }

GroupByItems ==
    { [text |-> <<>>,
       columns |-> <<>>],
      [text |-> <<" ", "G", "R", "O", "U", "P", " ", "B", "Y", " ", "c", "a", "t", "e", "g", "o", "r", "y">>,
       columns |-> <<"category">>],
      [text |-> <<" ", "g", "r", "o", "u", "p", " ", "b", "y", " ", "c", "a", "t", "e", "g", "o", "r", "y", " ", ",", " ", "v", "a", "l", "u", "e">>,
       columns |-> <<"category", "value">>] }

\* SAMPLE clauses: x is the number before '%', n the integer; MALFORMED is
\* no SAMPLE shape, OVERFLOW an integer above ULLONG_MAX.
SampleItems ==
    { [text |-> <<>>, shape |-> "NONE"],
      [text |-> <<" ", "S", "A", "M", "P", "L", "E", " ", "1", "5", ".", "5", "%">>,
       shape |-> "PERCENT", x |-> Rat(155, 10)],
      [text |-> <<" ", "S", "A", "M", "P", "L", "E", " ", "0", "%">>,
       shape |-> "PERCENT", x |-> FromInt(0)],
      [text |-> <<" ", "S", "A", "M", "P", "L", "E", " ", "1", "5", "0", "%">>,
       shape |-> "PERCENT", x |-> FromInt(150)],
      [text |-> <<" ", "S", "A", "M", "P", "L", "E", " ", "R", "E", "S", "E", "R", "V", "O", "I", "R", " ", "1", "0">>,
       shape |-> "RESERVOIR", n |-> 10],
      [text |-> <<" ", "S", "A", "M", "P", "L", "E", " ", "R", "E", "S", "E", "R", "V", "O", "I", "R", " ", "0">>,
       shape |-> "RESERVOIR", n |-> 0],
      [text |-> <<" ", "s", "a", "m", "p", "l", "e", " ", "s", "y", "s", "t", "e", "m", "a", "t", "i", "c", " ", "3">>,
       shape |-> "SYSTEMATIC", n |-> 3],
      [text |-> <<" ", "S", "A", "M", "P", "L", "E", " ", "S", "Y", "S", "T", "E", "M", "A", "T", "I", "C", " ", "0">>,
       shape |-> "SYSTEMATIC", n |-> 0],
      [text |-> <<" ", "S", "A", "M", "P", "L", "E", " ", "S", "T", "R", "A", "T", "I", "F", "I", "E", "D", " ", "B", "Y", " ", "c", "a", "t", "e", "g", "o", "r", "y", " ", "5", "0", "%">>,
       shape |-> "STRATIFIED", column |-> "category", x |-> FromInt(50)],
      [text |-> <<" ", "S", "A", "M", "P", "L", "E", " ", "S", "T", "R", "A", "T", "I", "F", "I", "E", "D", " ", "B", "Y", " ", "c", "a", "t", "e", "g", "o", "r", "y", " ", "0", "%">>,
       shape |-> "STRATIFIED", column |-> "category", x |-> FromInt(0)],
      [text |-> <<" ", "S", "A", "M", "P", "L", "E", " ", "S", "T", "R", "A", "T", "I", "F", "I", "E", "D", " ", "B", "Y", " ", "c", "a", "t", "e", "g", "o", "r", "y", " ", "1", "5", "0", "%">>,
       shape |-> "STRATIFIED", column |-> "category", x |-> FromInt(150)],
      [text |-> <<" ", "S", "A", "M", "P", "L", "E", " ", "b", "o", "g", "u", "s">>, shape |-> "MALFORMED"],
      [text |-> <<" ", "S", "A", "M", "P", "L", "E", " ", "R", "E", "S", "E", "R", "V", "O", "I", "R", " ", "9", "9", "9", "9", "9", "9", "9", "9", "9", "9", "9", "9", "9", "9", "9", "9", "9", "9", "9", "9">>, shape |-> "OVERFLOW"] }

Item(S, text) == CHOOSE it \in S : it.text = text

\* The inputs of parse.  Every select list is combined with every table and
\* GROUP BY list, without a SAMPLE clause and with the one of test
\* ParserHandlesSamplingClause; every SAMPLE clause is put on two queries;
\* and the keywords are written in upper case, in lower case or left out.
ParseInputs ==
    {[select |-> <<"S", "E", "L", "E", "C", "T">>, columns |-> l, from |-> <<"F", "R", "O", "M">>,
      table |-> t, group_by |-> g, sample |-> s]
        : l \in UNION {[1..k -> ColumnItems] : k \in 1..MaxColumns}, t \in TableItems, g \in GroupByItems,
          s \in {Item(SampleItems, <<>>), Item(SampleItems, <<" ", "S", "A", "M", "P", "L", "E", " ", "1", "5", ".", "5", "%">>)}}
    \cup
    {[select |-> <<"S", "E", "L", "E", "C", "T">>, columns |-> l, from |-> <<"F", "R", "O", "M">>,
      table |-> Item(TableItems, <<" ", "d", "a", "t", "a">>), group_by |-> g, sample |-> s]
        : l \in {<<Item(ColumnItems, <<"C", "O", "U", "N", "T", "(", "*", ")">>)>>,
                 <<Item(ColumnItems, <<"c", "a", "t", "e", "g", "o", "r", "y">>), Item(ColumnItems, <<"C", "O", "U", "N", "T", "(", "*", ")">>)>>},
          g \in {Item(GroupByItems, <<>>), Item(GroupByItems, <<" ", "G", "R", "O", "U", "P", " ", "B", "Y", " ", "c", "a", "t", "e", "g", "o", "r", "y">>)},
          s \in SampleItems}
    \cup
    {[select |-> sel, columns |-> <<Item(ColumnItems, <<"C", "O", "U", "N", "T", "(", "*", ")">>)>>, from |-> fr,
      table |-> Item(TableItems, <<" ", "d", "a", "t", "a">>), group_by |-> Item(GroupByItems, <<>>),
      sample |-> s]
        : sel \in {<<"S", "E", "L", "E", "C", "T">>, <<"s", "e", "l", "e", "c", "t">>, <<>>}, fr \in {<<"F", "R", "O", "M">>, <<"f", "r", "o", "m">>, <<>>},
          s \in {Item(SampleItems, <<>>), Item(SampleItems, <<" ", "S", "A", "M", "P", "L", "E", " ", "1", "5", ".", "5", "%">>)}}

RECURSIVE JoinComma(_)
JoinComma(items) ==
    IF Len(items) = 1 THEN items[1].text
    ELSE items[1].text \o <<",", " ">> \o JoinComma(Tail(items))

\* A default-constructed Query: what the caller holds when parse throws.
NoQuery ==
    [columns |-> <<>>, table_name |-> "", group_by_columns |-> <<>>,
     sampling |-> Sampling]

(***************************************************************************)
(* State                                                                   *)
(***************************************************************************)
VARIABLES
    query,          \* argument of the execute call
    data,           \* argument of the execute call
    sampler,        \* QueryExecutor::sampler
    group_results,  \* QueryExecutor::group_results
    result,         \* the QueryResult execute returned
    pc,             \* "call": execute not yet run; "returned"; "threw"; "idle"
    error,          \* the exception execute threw
    calls,          \* the arguments of the execute calls made on the executor
    ctor,           \* constructor call of the stand-alone sampler
    smp,            \* the stand-alone sampler (result of the constructor)
    added,          \* items added to smp since construction or the last clear
    snapshot,       \* what the last getSample call on smp returned, and from which state
    parse_input,    \* the query string given to parse, by its fragments
    parse_result,   \* what parse returned or threw
    parse_pc,       \* "call": parse not yet run; "returned"; "threw"; "idle"
    agg,            \* an aggregator used on its own
    values,         \* the values added to agg since construction
    reported,       \* what the last result() call on agg returned
    sk,             \* a sketch used on its own: CountMinSketch, BloomFilter or ExponentialHistogram
    sk_pc,          \* "idle": between calls; "merge": inside the loop of mergeBuckets; "crashed"
    sk_log          \* what was added to sk since construction or the last clear

execVars == <<query, data, sampler, group_results, result, pc, error, calls>>
smpVars == <<ctor, smp, added, snapshot>>
parseVars == <<parse_input, parse_result, parse_pc>>
aggVars == <<agg, values, reported>>
vars ==
    <<query, data, sampler, group_results, result, pc, error, calls, ctor, smp, added,
      snapshot, parse_input, parse_result, parse_pc, agg, values, reported,
      sk, sk_pc, sk_log>>

\* The argument of the parse call.
query_str ==
    parse_input.select \o <<" ">> \o JoinComma(parse_input.columns) \o <<" ">>
        \o parse_input.from \o parse_input.table.text \o parse_input.group_by.text
        \o parse_input.sample.text

\* No parse call is made.
ParserIdle ==
    /\ parse_input = [select |-> <<>>, columns |-> <<Item(ColumnItems, <<"*">>)>>,
                      from |-> <<>>, table |-> Item(TableItems, <<" ">>),
                      group_by |-> Item(GroupByItems, <<>>),
                      sample |-> Item(SampleItems, <<>>)]
    /\ parse_result = [exc |-> "", query |-> NoQuery]
    /\ parse_pc = "idle"

\* No aggregator is used on its own.
AggregatorIdle ==
    /\ agg = CountAggregator
    /\ values = <<>>
    /\ reported = <<>>

\* No sketch is used on its own.
SketchIdle ==
    /\ sk = [kind |-> "NONE"]
    /\ sk_pc = "none"
    /\ sk_log = <<>>

\* A QueryExecutor after construction, and no result held by the caller.
FreshExecutor ==
    /\ sampler = NoSampler
    /\ group_results = EmptyMap
    /\ result = QueryResult
    /\ error = ""
    /\ calls = <<>>

Init ==
    /\ query \in Queries
    /\ data \in Datasets
    /\ FreshExecutor
    /\ pc = "call"
    /\ ctor = [kind |-> "RESERVOIR", arg |-> 1]
    /\ smp = Construct(ctor)
    /\ added = <<>>
    /\ snapshot = <<>>
    /\ ParserIdle
    /\ AggregatorIdle
    /\ SketchIdle

\* One call executor.execute(query, data).
Execute ==
    /\ pc = "call"
    /\ \E out \in execute([sampler |-> sampler, group_results |-> group_results],
                          query, data) :
        /\ pc' = out.pc
        /\ error' = out.error
        /\ sampler' = out.sampler
        /\ group_results' = out.group_results
        /\ result' = out.result
    /\ calls' = Append(calls, [query |-> query, data |-> data])
    /\ UNCHANGED <<query, data>>
    /\ UNCHANGED <<smpVars, parseVars, aggVars, sk, sk_pc, sk_log>>

Next == Execute

Spec == Init /\ [][Next]_vars

(***************************************************************************)
(* Several execute calls on one executor                                   *)
(***************************************************************************)
\* The arguments of the calls: an unsampled query with and without GROUP
\* BY, a reservoir of one row, a stratified sample of 50% and one of 0%,
\* whose sampler cannot be built, on tables with two groups, one group, no
\* row, and a row that lacks the column category.
CallInputs ==
    { MakeQuery(<<RawCategory, CountStar, SumValue>>, <<"category">>, Sampling),
      MakeQuery(<<CountStar>>, <<>>, Sampling),
      MakeQuery(<<CountStar, AvgValue>>, <<>>,
                parseSampling(Sampling, [shape |-> "RESERVOIR", int |-> 1])),
      MakeQuery(<<CountStar, AvgValue>>, <<>>,
                parseSampling(Sampling, [shape |-> "STRATIFIED", col |-> "category",
                                         pct |-> FromInt(50)])),
      MakeQuery(<<CountStar, AvgValue>>, <<>>,
                parseSampling(Sampling, [shape |-> "STRATIFIED", col |-> "category",
                                         pct |-> Zero])) }
    \X { <<>>,
         <<Row2(<<"A">>, <<"1">>)>>,
         <<Row2(<<"A">>, <<"1">>), Row2(<<"B">>, <<"-", "3">>)>>,
         <<RowVal(<<"1", "0">>)>> }

InitCalls ==
    /\ \E in \in CallInputs : query = in[1] /\ data = in[2]
    /\ FreshExecutor
    /\ pc = "call"
    /\ ctor = [kind |-> "RESERVOIR", arg |-> 1]
    /\ smp = Construct(ctor)
    /\ added = <<>>
    /\ snapshot = <<>>
    /\ ParserIdle
    /\ AggregatorIdle
    /\ SketchIdle

\* The caller prepares the next executor.execute(query, data) after the
\* last call returned or threw.
NextCall ==
    /\ pc \in {"returned", "threw"}
    /\ Len(calls) < MaxCalls
    /\ \E in \in CallInputs : query' = in[1] /\ data' = in[2]
    /\ pc' = "call"
    /\ UNCHANGED <<sampler, group_results, result, error, calls>>
    /\ UNCHANGED <<smpVars, parseVars, aggVars, sk, sk_pc, sk_log>>

NextCalls == Execute \/ NextCall

SpecCalls == InitCalls /\ [][NextCalls]_vars

(***************************************************************************)
(* The samplers used on their own                                          *)
(***************************************************************************)
InitSamplers ==
    /\ query = MakeQuery(<<CountStar>>, <<>>, Sampling)
    /\ data = <<>>
    /\ FreshExecutor
    /\ pc = "idle"
    /\ ctor \in Ctors
    /\ smp = Construct(ctor)
    /\ added = <<>>
    /\ snapshot = <<>>
    /\ ParserIdle
    /\ AggregatorIdle
    /\ SketchIdle

\* smp.add(item)
\* A stratified sampler is also fed past MaxAdds, with copies of one row
\* after the first, until a stratum has overflowed.
SamplerAdd ==
    /\ smp.ok
    /\ \E item \in Items :
        /\ \/ Len(added) < MaxAdds
           \/ /\ ctor.kind = "STRATIFIED"
              /\ Len(added) < MaxStratumAdds
              /\ \A i \in 2..Len(added) : added[i] = item
        /\ \E o \in Sampler_add(smp.obj, item) : smp' = [smp EXCEPT !.obj = o.s]
        /\ added' = Append(added, item)
    /\ UNCHANGED <<ctor, snapshot>>
    /\ UNCHANGED <<execVars, parseVars, aggVars, sk, sk_pc, sk_log>>

\* SamplingStrategy::clear through the virtual call.
clear(s) ==
    CASE s.kind = "RANDOM" -> [s EXCEPT !.sample = <<>>]
      [] s.kind = "SYSTEMATIC" -> SystematicSampling_clear(s)
      [] s.kind = "RESERVOIR" -> ReservoirSample_clear(s)
      [] s.kind = "STRATIFIED" -> [s EXCEPT !.strata = EmptyMap]

\* smp.clear()
SamplerClear ==
    /\ smp.ok
    /\ smp' = [smp EXCEPT !.obj = clear(@)]
    /\ added' = <<>>
    /\ UNCHANGED <<ctor, snapshot>>
    /\ UNCHANGED <<execVars, parseVars, aggVars, sk, sk_pc, sk_log>>

\* A getSample that hands its buffer over and is left empty.
SamplerSample_Moves ==
    /\ smp.ok
    /\ Len(added) <= MaxSnapshotAdds
    /\ \E p \in getSample(smp.obj) : snapshot' = <<[rows |-> p, of |-> smp.obj]>>
    /\ smp' = [smp EXCEPT !.obj = clear(@)]
    /\ UNCHANGED <<ctor, added>>
    /\ UNCHANGED <<execVars, parseVars, aggVars, sk, sk_pc, sk_log>>

\* smp.getSample(), a const member function that returns the vector by
\* value: snapshot keeps the copy and the state it was taken from.
SamplerSample ==
    /\ smp.ok
    /\ Len(added) <= MaxSnapshotAdds
    /\ \E p \in getSample(smp.obj) : snapshot' = <<[rows |-> p, of |-> smp.obj]>>
    /\ UNCHANGED <<ctor, smp, added>>
    /\ UNCHANGED <<execVars, parseVars, aggVars, sk, sk_pc, sk_log>>

NextSamplers == SamplerAdd \/ SamplerClear \/ SamplerSample

SpecSamplers == InitSamplers /\ [][NextSamplers]_vars

(***************************************************************************)
(* The parser                                                              *)
(***************************************************************************)
\* The executor and the stand-alone sampler are not used.
ExecutorIdle ==
    /\ query = MakeQuery(<<CountStar>>, <<>>, Sampling)
    /\ data = <<>>
    /\ FreshExecutor
    /\ pc = "idle"
    /\ ctor = [kind |-> "RESERVOIR", arg |-> 1]
    /\ smp = Construct(ctor)
    /\ added = <<>>
    /\ snapshot = <<>>

InitParser ==
    /\ ExecutorIdle
    /\ AggregatorIdle
    /\ SketchIdle
    /\ parse_input \in ParseInputs
    /\ parse_result = [exc |-> "", query |-> NoQuery]
    /\ parse_pc = "call"

\* One call QueryParser::parse(query_str); the caller gets no query when it
\* throws.
Parse ==
    /\ parse_pc = "call"
    /\ \E out \in {parse(query_str)} :
        /\ parse_pc' = IF out.exc = "" THEN "returned" ELSE "threw"
        /\ parse_result' = IF out.exc = "" THEN out
                           ELSE [exc |-> out.exc, query |-> NoQuery]
    /\ UNCHANGED parse_input
    /\ UNCHANGED <<execVars, smpVars, aggVars, sk, sk_pc, sk_log>>

NextParser == Parse

SpecParser == InitParser /\ [][NextParser]_vars

(***************************************************************************)
(* An aggregator used on its own                                           *)
(***************************************************************************)
InitAggregator ==
    /\ ExecutorIdle
    /\ ParserIdle
    /\ SketchIdle
    /\ agg \in {CountAggregator, SumAggregator, AvgAggregator, MinAggregator,
                MaxAggregator}
    /\ values = <<>>
    /\ reported = <<>>

\* agg.addValue(x)
AggregatorAdd ==
    /\ Len(values) < MaxValues
    /\ \E x \in {FromInt(-3), Zero, Rat(1, 2), FromInt(2)} :
        /\ agg' = Aggregator_addValue(agg, x)
        /\ values' = Append(values, x)
    /\ UNCHANGED reported
    /\ UNCHANGED <<execVars, smpVars, parseVars, sk, sk_pc, sk_log>>

\* agg.getResult(), a const member function: reported keeps what it returned
\* and after how many adds.
AggregatorResult ==
    /\ reported' = <<[at |-> Len(values), value |-> Aggregator_getResult(agg)]>>
    /\ UNCHANGED <<agg, values>>
    /\ UNCHANGED <<execVars, smpVars, parseVars, sk, sk_pc, sk_log>>

NextAggregator == AggregatorAdd \/ AggregatorResult

SpecAggregator == InitAggregator /\ [][NextAggregator]_vars

(***************************************************************************)
(* core/data_structures.hpp                                                *)
(***************************************************************************)
\* INT64_MAX, the value estimate starts from; stands for 2^63 - 1, above
\* every count the sketches below can hold.
Int64Max == 2147483647

\* CountMinSketch::hash.  A uint32_t is held as its two 16-bit halves
\* <<high, low>>, so that hash * 31 + c wraps at 2^32 as in the code; the
\* result is the column, counted from 0.  The items are made of lower-case
\* letters, whose character codes are 97..122.
hash(item, seed, width) ==
    LET Code(c) == 96 + CHOOSE i \in 1..26 : LowerCase[i] = c
        RECURSIVE Loop(_, _)
        Loop(h, i) ==
            IF i > Len(item) THEN h
            ELSE LET low == h[2] * 31 + Code(item[i])
                 IN  Loop(<<(h[1] * 31 + low \div 65536) % 65536, low % 65536>>, i + 1)
        Mod(h) == ((h[1] % width) * (65536 % width) + (h[2] % width)) % width
    IN  Mod(Loop(seed, 1))

\* CountMinSketch::add.  With no column, hash divides by zero as soon as
\* there is a row: the call does not return (ok = FALSE).
CountMinSketch_add(s, item, count) ==
    IF s.depth > 0 /\ s.width = 0
    THEN [ok |-> FALSE, obj |-> s]
    ELSE [ok |-> TRUE,
          obj |-> [s EXCEPT !.sketch =
                    [i \in 1..s.depth |->
                        [@[i] EXCEPT ![hash(item, s.hash_seeds[i], s.width) + 1] =
                                        @ + count]]]]

\* CountMinSketch::estimate: the value returned, or ok = FALSE when hash
\* divides by zero.
CountMinSketch_estimate(s, item) ==
    IF s.depth > 0 /\ s.width = 0
    THEN [ok |-> FALSE, value |-> 0]
    ELSE LET RECURSIVE Loop(_, _)
             Loop(min_count, i) ==
                IF i > s.depth THEN min_count
                ELSE Loop(Min2(min_count,
                               s.sketch[i][hash(item, s.hash_seeds[i], s.width) + 1]),
                          i + 1)
         IN  [ok |-> TRUE, value |-> Loop(Int64Max, 1)]

\* CountMinSketch::clear
CountMinSketch_clear(s) ==
    [s EXCEPT !.sketch = [i \in 1..s.depth |-> [j \in 1..s.width |-> 0]]]

(***************************************************************************)
(* core/sketching.hpp                                                      *)
(***************************************************************************)
NUM_HASH_FUNCTIONS == 3

\* BloomFilter::getIndex, for num_bits > 0.  The three hashers are objects of
\* the one type std::hash<std::string>, whose values the build fixes:
\* s.hashers[i] is the function the i-th of them computes.
getIndex(s, item, hash_function) ==
    s.hashers[hash_function + 1][item] % s.num_bits

\* An add that stores the bits of its item in place of the bits held.
BloomFilter_add_Overwrites(s, item) ==
    IF s.num_bits = 0
    THEN [ok |-> FALSE, obj |-> s]
    ELSE [ok |-> TRUE,
          obj |-> [s EXCEPT !.bits =
                    [j \in 1..s.num_bits |->
                        \E i \in 0..(NUM_HASH_FUNCTIONS - 1) :
                            j = getIndex(s, item, i) + 1]]]

\* BloomFilter::add.  With num_bits = 0 getIndex divides by zero: the call
\* does not return (ok = FALSE).
BloomFilter_add(s, item) ==
    IF s.num_bits = 0
    THEN [ok |-> FALSE, obj |-> s]
    ELSE [ok |-> TRUE,
          obj |-> [s EXCEPT !.bits =
                    [j \in 1..s.num_bits |->
                        \/ @[j]
                        \/ \E i \in 0..(NUM_HASH_FUNCTIONS - 1) :
                              j = getIndex(s, item, i) + 1]]]

\* BloomFilter::mightContain: the value returned, or ok = FALSE when
\* getIndex divides by zero.
mightContain(s, item) ==
    IF s.num_bits = 0
    THEN [ok |-> FALSE, value |-> FALSE]
    ELSE [ok |-> TRUE,
          value |-> \A i \in 0..(NUM_HASH_FUNCTIONS - 1) :
                        s.bits[getIndex(s, item, i) + 1]]

\* BloomFilter::clear
BloomFilter_clear(s) == [s EXCEPT !.bits = [j \in 1..s.num_bits |-> FALSE]]

\* ExponentialHistogram::add up to its call of mergeBuckets: the expired
\* buckets are removed and the new bucket is appended.
ExponentialHistogram_add(s, timestamp, count) ==
    LET cutoff == IF timestamp > s.window_size THEN timestamp - s.window_size ELSE 0
        Kept(b) == ~(b.timestamp < cutoff)
    IN  [s EXCEPT !.buckets =
            Append(SelectSeq(@, Kept), [count |-> count, timestamp |-> timestamp])]

\* A merge that drops the right bucket of an equal pair without doubling the
\* left one.
mergeBuckets_DropsRight(s) ==
    LET k == (s.epsilon[2] + s.epsilon[1] - 1) \div s.epsilon[1]
        log2 == CHOOSE e \in 0..30 : 2^e <= s.window_size /\ s.window_size < 2^(e + 1)
        max_buckets == k * (1 + log2)
        b == s.buckets
        Erase(seq, at) == [j \in 1..(Len(seq) - 1) |-> IF j < at THEN seq[j] ELSE seq[j + 1]]
        Equal == {i \in 1..(Len(b) - 1) : b[i].count = b[i + 1].count}
        it == CHOOSE i \in Equal : \A j \in Equal : i <= j
    IN  IF ~(Len(b) > max_buckets)
        THEN [looping |-> FALSE, obj |-> s]
        ELSE [looping |-> TRUE,
              obj |-> IF Equal # {}
                      THEN [s EXCEPT !.buckets = Erase(b, it + 1)]
                      ELSE IF Len(b) >= 2
                      THEN [s EXCEPT !.buckets =
                                Erase([b EXCEPT ![1].count = @ + b[2].count], 2)]
                      ELSE s]

\* ExponentialHistogram::mergeBuckets: one evaluation of the condition of
\* its while loop and, when it holds, one run of its body; looping says
\* whether the loop goes on.  epsilon is a positive rational and
\* window_size is at least 1.
mergeBuckets(s) ==
    LET k == (s.epsilon[2] + s.epsilon[1] - 1) \div s.epsilon[1]
        log2 == CHOOSE e \in 0..30 : 2^e <= s.window_size /\ s.window_size < 2^(e + 1)
        max_buckets == k * (1 + log2)
        b == s.buckets
        Erase(seq, at) == [j \in 1..(Len(seq) - 1) |-> IF j < at THEN seq[j] ELSE seq[j + 1]]
        Equal == {i \in 1..(Len(b) - 1) : b[i].count = b[i + 1].count}
        it == CHOOSE i \in Equal : \A j \in Equal : i <= j
    IN  IF ~(Len(b) > max_buckets)
        THEN [looping |-> FALSE, obj |-> s]
        ELSE [looping |-> TRUE,
              obj |-> IF Equal # {}
                      THEN [s EXCEPT !.buckets =
                                Erase([b EXCEPT ![it].count = @ * 2], it + 1)]
                      ELSE IF Len(b) >= 2
                      THEN [s EXCEPT !.buckets =
                                Erase([b EXCEPT ![1].count = @ + b[2].count], 2)]
                      ELSE s]

(***************************************************************************)
(* A sketch used on its own                                                *)
(***************************************************************************)
MaxWidth == 2
MaxDepth == 2
MaxSketchAdds == 3
MaxTime == 4
MaxWindow == 2

\* The strings given to the sketches; with two columns "a" and "ab" share
\* a column under some seeds and "a" and "b" under others.
SketchItems == {<<"a">>, <<"b">>, <<"a", "b">>}

\* The sketches after construction.  The seeds a CountMinSketch draws are
\* any uint32_t values, here 0, 1 and 2^32 - 1 in halves; the values of
\* std::hash are any, here 0..MaxWidth; a histogram gets a window of at
\* least 1 and an epsilon of 1/2 or 1.
SketchCtors ==
    {[kind |-> "CMS", width |-> w, depth |-> Len(seeds), hash_seeds |-> seeds,
      sketch |-> [i \in 1..Len(seeds) |-> [j \in 1..w |-> 0]]]
        : w \in 0..MaxWidth,
          seeds \in UNION {[1..d -> {<<0, 0>>, <<0, 1>>, <<65535, 65535>>}]
                            : d \in 0..MaxDepth}}
    \cup {[kind |-> "BLOOM", num_bits |-> n, bits |-> [j \in 1..n |-> FALSE],
           hashers |-> [i \in 1..NUM_HASH_FUNCTIONS |-> h]]
            : n \in 0..MaxWidth, h \in [SketchItems -> 0..MaxWidth]}
    \cup {[kind |-> "EH", window_size |-> w, epsilon |-> e, buckets |-> <<>>]
            : w \in 1..MaxWindow, e \in {Rat(1, 2), One}}

InitSketches ==
    /\ ExecutorIdle
    /\ ParserIdle
    /\ AggregatorIdle
    /\ sk \in SketchCtors
    /\ sk_pc = "idle"
    /\ sk_log = [n |-> 0, total |-> [x \in SketchItems |-> 0], negative |-> FALSE,
                 cleared |-> FALSE, timestamp |-> 0]

\* sk.add(item, count), sk.add(item) or sk.add(timestamp, count) up to the
\* loop of mergeBuckets
SketchAdd ==
    /\ sk_pc = "idle"
    /\ sk_log.n < MaxSketchAdds
    /\ \/ /\ sk.kind = "CMS"
          /\ \E item \in SketchItems, count \in {-1, 1} :
                \E out \in {CountMinSketch_add(sk, item, count)} :
                    /\ sk' = out.obj
                    /\ sk_pc' = IF out.ok THEN "idle" ELSE "crashed"
                    /\ sk_log' = IF out.ok
                                 THEN [sk_log EXCEPT !.n = @ + 1,
                                                     !.total[item] = @ + count,
                                                     !.negative = @ \/ count < 0,
                                                     !.cleared = FALSE]
                                 ELSE sk_log
       \/ /\ sk.kind = "BLOOM"
          /\ \E item \in SketchItems :
                \E out \in {BloomFilter_add(sk, item)} :
                    /\ sk' = out.obj
                    /\ sk_pc' = IF out.ok THEN "idle" ELSE "crashed"
                    /\ sk_log' = IF out.ok
                                 THEN [sk_log EXCEPT !.n = @ + 1,
                                                     !.total[item] = @ + 1,
                                                     !.cleared = FALSE]
                                 ELSE sk_log
       \/ /\ sk.kind = "EH"
          /\ \E timestamp \in 0..MaxTime, count \in 0..2 :
                /\ sk' = ExponentialHistogram_add(sk, timestamp, count)
                /\ sk_pc' = "merge"
                /\ sk_log' = [sk_log EXCEPT !.n = @ + 1, !.timestamp = timestamp]
    /\ UNCHANGED <<execVars, smpVars, parseVars, aggVars>>

\* One turn of the while loop of mergeBuckets, or its end.
SketchMerge ==
    /\ sk_pc = "merge"
    /\ \E out \in {mergeBuckets(sk)} :
        /\ sk' = out.obj
        /\ sk_pc' = IF out.looping THEN "merge" ELSE "idle"
    /\ UNCHANGED sk_log
    /\ UNCHANGED <<execVars, smpVars, parseVars, aggVars>>

\* sk.clear()
SketchClear ==
    /\ sk_pc = "idle"
    /\ sk.kind \in {"CMS", "BLOOM"}
    /\ sk' = IF sk.kind = "CMS" THEN CountMinSketch_clear(sk) ELSE BloomFilter_clear(sk)
    /\ sk_pc' = "idle"
    /\ sk_log' = [sk_log EXCEPT !.total = [x \in SketchItems |-> 0],
                                !.negative = FALSE, !.cleared = TRUE]
    /\ UNCHANGED <<execVars, smpVars, parseVars, aggVars>>

NextSketches == SketchAdd \/ SketchMerge \/ SketchClear

SpecSketches == InitSketches /\ [][NextSketches]_vars

\* add runs on: a turn of the loop that can be taken is taken.
SpecSketchesFair == SpecSketches /\ WF_vars(SketchMerge)

(***************************************************************************)
(* Reference values the properties compare the engine with                 *)
(***************************************************************************)
\* The numbers in column name of the rows: the cells std::stod reads.
RECURSIVE NumericValues(_, _)
NumericValues(rows, name) ==
    IF rows = <<>> THEN <<>>
    ELSE (IF name \in DOMAIN Head(rows) /\ stod(Head(rows)[name]).ok
          THEN <<stod(Head(rows)[name]).val>> ELSE <<>>)
         \o NumericValues(Tail(rows), name)

RECURSIVE SumSeq(_)
SumSeq(vals) == IF vals = <<>> THEN Zero ELSE RAdd(Head(vals), SumSeq(Tail(vals)))

Least(vals) == CHOOSE v \in Range(vals) : \A w \in Range(vals) : ~RLess(w, v)
Greatest(vals) == CHOOSE v \in Range(vals) : \A w \in Range(vals) : ~RLess(v, w)

\* The aggregate of the given kind over column name of the rows.
Reference(kind, rows, name) ==
    LET vals == NumericValues(rows, name)
    IN  CASE kind = "COUNT" -> FromInt(Len(rows))
          [] kind = "SUM" -> SumSeq(vals)
          [] kind = "AVG" ->
                IF vals = <<>> THEN Zero ELSE RDiv(SumSeq(vals), FromInt(Len(vals)))
          [] kind = "MIN" -> IF vals = <<>> THEN Zero ELSE Least(vals)
          [] kind = "MAX" -> IF vals = <<>> THEN Zero ELSE Greatest(vals)

Sampled == query.sampling.method # "NONE"

\* The rows execute dispatched: the dataset, or the sample it took.
Processed == IF sampler.kind = "NONE" THEN data ELSE CHOOSE p \in getSample(sampler) : TRUE

\* The processed rows whose group-by values are the tuple t.
RowsOfGroup(t) ==
    SelectSeq(Processed, LAMBDA r : GroupValues(query.group_by_columns, r) = t)

GroupTuples == {GroupValues(query.group_by_columns, r) : r \in Range(Processed)}

AggregatedColumns == {i \in DOMAIN query.columns : query.columns[i].aggregation # "NONE"}

\* Two aggregated columns of the query read the same source column.
SharesSource ==
    \E i, j \in AggregatedColumns : i # j /\ query.columns[i].name = query.columns[j].name

\* Row k of the result shows, in every aggregated column, the column's own
\* aggregate over the processed rows of group t.
RowShowsGroup(k, t) ==
    \A i \in AggregatedColumns :
        result.rows[k][i] =
            to_string(Reference(query.columns[i].aggregation, RowsOfGroup(t),
                                query.columns[i].name))

(***************************************************************************)
(* Properties of execute                                                   *)
(***************************************************************************)
\* C1: for an unsampled execute of a query with two or more aggregated
\* columns over the same source column, every aggregated column has an
\* aggregator of its own, so that every result cell is the column's own
\* aggregate over its group's rows; MIN(value), MAX(value) on the five-row
\* table yields the single row (100, 300).
C1_OwnAggregatorPerColumn ==
    (pc = "returned" /\ ~Sampled /\ SharesSource) =>
        /\ \A k \in DOMAIN result.rows : \E t \in GroupTuples : RowShowsGroup(k, t)
        /\ (query.columns = <<MinValue, MaxValue>> /\ data = ScenarioTable) =>
            /\ Len(result.rows) = 1
            /\ stod(result.rows[1][1]).val = FromInt(100)
            /\ stod(result.rows[1][2]).val = FromInt(300)

ProcessedEmpty ==
    IF sampler.kind = "NONE" THEN data = <<>>
    ELSE \A p \in getSample(sampler) : p = <<>>

\* C3: when the processed row set is empty and the query has no GROUP BY,
\* the result has exactly one row, and its COUNT columns show 0.
C3_OneRowOnEmptyInput ==
    (pc = "returned" /\ query.group_by_columns = <<>> /\ ProcessedEmpty) =>
        /\ Len(result.rows) = 1
        /\ \A i \in AggregatedColumns :
            query.columns[i].aggregation = "COUNT" =>
                stod(result.rows[1][i]) = [ok |-> TRUE, val |-> Zero]

\* C4: for a query with GROUP BY, execute emits one row per distinct tuple
\* of group-by values of the processed rows, and its groups are those tuples.
C4_GroupsAreDistinctTuples ==
    (pc = "returned" /\ query.group_by_columns # <<>>) =>
        /\ Len(result.rows) = Cardinality(GroupTuples)
        /\ {group_results[g].group_by_values : g \in DOMAIN group_results} = GroupTuples

\* The query groups by exactly one column and every row has that column.
OneGroupColumnPresent ==
    /\ Len(query.group_by_columns) = 1
    /\ \A i \in DOMAIN data : query.group_by_columns[1] \in DOMAIN data[i]

\* C5: an unsampled query grouping by one column present in every row emits
\* exactly one row per distinct value of the column; the row's cells of that
\* raw column are the value and its aggregated cells are the aggregates over
\* the input rows having the value (A -> 125, B -> 225, C -> 300 for AVG on
\* the five-row table).
C5_OneRowPerGroupValue ==
    (pc = "returned" /\ ~Sampled /\ OneGroupColumnPresent) =>
        /\ Len(result.rows) = Cardinality(GroupTuples)
        /\ \A t \in GroupTuples : \E k \in DOMAIN result.rows :
            /\ \A i \in DOMAIN query.columns :
                (query.columns[i].aggregation = "NONE"
                    /\ query.columns[i].name = query.group_by_columns[1])
                    => result.rows[k][i] = t[1]
            /\ RowShowsGroup(k, t)

\* The scaling factor of the sampler the executor holds.
ExpectedScaling ==
    IF RLess(Zero, getSamplingRate(sampler))
    THEN RDiv(One, getSamplingRate(sampler)) ELSE One

\* The cell of aggregated column i for bundle b: the aggregator's result,
\* rescaled for COUNT and SUM of a sampled query only.
ExpectedCell(b, i) ==
    LET v == getResult(b, query.columns[i].name)
    IN  to_string(IF Sampled /\ query.columns[i].aggregation \in {"COUNT", "SUM"}
                  THEN RMul(v, ExpectedScaling) ELSE v)

\* C7: every COUNT and SUM cell of a sampled query is the group's aggregator
\* result times 1/rate() (times 1 when the rate is 0); AVG, MIN and MAX cells
\* and all cells of an unsampled query are the aggregator result itself.
C7_OnlyCountAndSumRescaled ==
    pc = "returned" =>
        /\ Len(result.rows) = Cardinality(DOMAIN group_results)
        /\ \A g \in DOMAIN group_results : \E k \in DOMAIN result.rows :
            /\ \A i \in DOMAIN query.columns :
                query.columns[i].aggregation = "NONE" =>
                    result.rows[k][i] =
                        GroupByMap(query.group_by_columns,
                                   group_results[g].group_by_values,
                                   query.columns[i].name)
            /\ \A i \in AggregatedColumns :
                result.rows[k][i] = ExpectedCell(group_results[g], i)

\* A 50% sample kept one row of several: COUNT doubled, AVG left alone.
C7_Witness ==
    /\ pc = "returned"
    /\ query.columns = <<CountStar, AvgValue>>
    /\ sampler.kind = "RANDOM"
    /\ sampler.sampling_rate = Rat(1, 2)
    /\ Len(data) = 3
    /\ sampler.sample = <<Row2(<<"B">>, <<"-", "3">>)>>
    /\ result.rows = << <<to_string(FromInt(2)), to_string(FromInt(-3))>> >>

\* C8: the result is approximate exactly when the query has sampling.
C8_ApproximateIffSampling ==
    pc = "returned" => (result.is_approximate <=> Sampled)

\* A sampled query whose sampler admitted no row of a non-empty dataset.
C8_Witness ==
    /\ pc = "returned"
    /\ Sampled
    /\ data # <<>>
    /\ ProcessedEmpty
    /\ result.is_approximate

\* Every n-th row of the dataset.
RECURSIVE EveryNth(_, _)
EveryNth(rows, n) ==
    IF Len(rows) < n THEN <<>>
    ELSE <<rows[n]>> \o EveryNth(Drop(rows, n), n)

\* C9: for SAMPLE SYSTEMATIC n the executor's sampler has step n, the
\* processed rows are the n-th, 2n-th, ... input rows and COUNT and SUM
\* cells are scaled by n.
C9_SystematicStep ==
    (pc = "returned" /\ query.sampling.method = "SYSTEMATIC") =>
        /\ sampler.kind = "SYSTEMATIC"
        /\ sampler.step_size = query.sampling.size
        /\ sampler.sample = EveryNth(data, query.sampling.size)
        /\ ExpectedScaling = FromInt(query.sampling.size)

(***************************************************************************)
(* Properties of the samplers                                              *)
(***************************************************************************)
\* C6: a ReservoirSample of capacity k holds min(n, k) elements after n adds
\* since construction or the last clear.
C6_ReservoirSize ==
    ctor.kind = "RESERVOIR" =>
        Len(smp.obj.reservoir) = Min2(Len(added), ctor.arg)

\* A full reservoir in which a later item replaced an earlier one.
C6_Witness ==
    /\ ctor.kind = "RESERVOIR"
    /\ ctor.arg = 2
    /\ Len(added) = MaxAdds
    /\ Len(smp.obj.reservoir) = 2
    /\ smp.obj.reservoir # SubSeq(added, 1, 2)

\* C10: a SystematicSampling of step s >= 1 holds the items added at
\* positions s, 2s, ... since construction or the last clear, in arrival
\* order, and reports the rate 1/s; a step below 1 is rejected.
C10_SystematicEveryStep ==
    ctor.kind = "SYSTEMATIC" =>
        IF ctor.arg < 1 THEN ~smp.ok
        ELSE /\ smp.ok
             /\ smp.obj.sample = [i \in 1..(Len(added) \div ctor.arg) |-> added[i * ctor.arg]]
             /\ getSamplingRate(smp.obj) = Rat(1, ctor.arg)

\* A sampler of step 2 that took the 2nd and 4th of five items.
C10_Witness ==
    /\ ctor = [kind |-> "SYSTEMATIC", arg |-> 2]
    /\ Len(added) = 5
    /\ smp.obj.current_count = 5
    /\ smp.obj.sample = <<added[2], added[4]>>
    /\ added[2] # added[4]

(***************************************************************************)
(* Errors of execute                                                       *)
(***************************************************************************)
\* C11: execute completes without raising an error for every parsed query
\* and every dataset: no add of the sampler fails, a row that lacks the
\* stratification column of a STRATIFIED query included.
C11_ExecuteNeverThrows ==
    pc # "threw"

(***************************************************************************)
(* Properties of the parser                                                *)
(***************************************************************************)
\* The query string has both keywords, in either case.
HasKeywords == parse_input.select # <<>> /\ parse_input.from # <<>>

ParseThrewParseError == parse_pc = "threw" /\ parse_result.exc = "ParseError"

\* The bounds of a sampling spec: rate in (0, 1] for Random and Stratified,
\* step >= 1 for Systematic and size >= 1 for Reservoir; parse keeps the
\* integer of both in Sampling::size.
InBounds(s) ==
    CASE s.method \in {"RANDOM", "STRATIFIED"} ->
            RLess(Zero, s.rate) /\ ~RLess(One, s.rate)
      [] s.method \in {"SYSTEMATIC", "RESERVOIR"} -> s.size >= 1
      [] s.method = "NONE" -> TRUE

\* The SAMPLE clause of the input is of a known shape and violates its bound.
ViolatesBound(item) ==
    CASE item.shape \in {"PERCENT", "STRATIFIED"} ->
            ~RLess(Zero, item.x) \/ RLess(FromInt(100), item.x)
      [] item.shape \in {"SYSTEMATIC", "RESERVOIR"} -> item.n < 1
      [] OTHER -> FALSE

\* C12: a query parse returns satisfies the sampling bounds of its kind
\* (Random and Stratified rate in (0, 1], Systematic step >= 1, Reservoir
\* size >= 1), and a query string whose SAMPLE clause violates its bound
\* raises ParseError.
C12_SamplingBoundsAtParse ==
    /\ parse_pc = "returned" => InBounds(parse_result.query.sampling)
    /\ (parse_pc \in {"returned", "threw"} /\ ViolatesBound(parse_input.sample))
            => ParseThrewParseError

\* The select list has a raw column other than '*'.
HasRawColumn ==
    \E i \in DOMAIN parse_input.columns :
        LET c == parse_input.columns[i].column
        IN  c.aggregation = "NONE" /\ c.name # "*"

\* The select list has an aggregated column.
HasAggregate ==
    \E i \in DOMAIN parse_input.columns :
        parse_input.columns[i].column.aggregation # "NONE"

\* The text holds none of the words the parser searches for.
KeywordFree(text) ==
    \A keyword \in {<<"S", "E", "L", "E", "C", "T">>, <<"F", "R", "O", "M">>, <<"G", "R", "O", "U", "P", " ", "B", "Y">>, <<"S", "A", "M", "P", "L", "E">>} :
        find(toUpper(text), keyword, 0) = NPos

\* The query has a table name, and a SAMPLE clause (if any) of a known shape
\* within its bound.
PlainTableAndSample ==
    /\ trim(parse_input.table.text) # <<>>
    /\ KeywordFree(parse_input.table.text)
    /\ parse_input.sample.shape \notin {"MALFORMED", "OVERFLOW"}
    /\ ~ViolatesBound(parse_input.sample)

MapsTo(item, s) ==
    CASE item.shape = "NONE" -> s.method = "NONE"
      [] item.shape = "PERCENT" ->
            s.method = "RANDOM" /\ s.rate = RDiv(item.x, FromInt(100))
      [] item.shape = "RESERVOIR" -> s.method = "RESERVOIR" /\ s.size = item.n
      [] item.shape = "SYSTEMATIC" -> s.method = "SYSTEMATIC" /\ s.size = item.n
      [] item.shape = "STRATIFIED" ->
            /\ s.method = "STRATIFIED"
            /\ s.stratification_column = item.column
            /\ s.rate = RDiv(item.x, FromInt(100))
      [] OTHER -> FALSE

\* C15: the sampling of a returned query is Random with rate x/100 for 'x%',
\* Reservoir with size n for 'RESERVOIR n', Systematic with n for
\* 'SYSTEMATIC n', Stratified with column c and rate x/100 for
\* 'STRATIFIED BY c x%', and None without a SAMPLE clause.
C15_SampleShapes ==
    parse_pc = "returned" => MapsTo(parse_input.sample, parse_result.query.sampling)

\* The query of test ParserHandlesSamplingClause: SAMPLE 15.5% read as the
\* rate 0.155.
C15_Witness ==
    /\ parse_pc = "returned"
    /\ parse_input.sample.shape = "PERCENT"
    /\ parse_result.query.sampling.method = "RANDOM"
    /\ parse_result.query.sampling.rate = Rat(31, 200)

\* C16: a returned query has the select-list columns in their order, each
\* with its source name, aggregation kind and alias (the AS alias, else
\* FUNC(UPPER(source)), empty for a raw column), the GROUP BY columns in
\* their order, and the table name written between FROM and the next clause.
C16_ColumnsGroupByAndTable ==
    parse_pc = "returned" =>
        /\ parse_result.query.columns =
                [i \in DOMAIN parse_input.columns |-> parse_input.columns[i].column]
        /\ parse_result.query.group_by_columns = parse_input.group_by.columns
        /\ parse_result.query.table_name = parse_input.table.name

(***************************************************************************)
(* Rows with missing or non-numeric fields                                 *)
(***************************************************************************)
LacksGroupColumn(r) ==
    \E j \in DOMAIN query.group_by_columns : query.group_by_columns[j] \notin DOMAIN r

\* The group-by values of a row, NULL standing for a column the row lacks.
NullTuple(r) ==
    [j \in DOMAIN query.group_by_columns |->
        IF query.group_by_columns[j] \in DOMAIN r THEN r[query.group_by_columns[j]]
        ELSE <<"N", "U", "L", "L">>]

\* The text of a group key: every value followed by '|'.
KeyText(t) == IF t = <<>> THEN <<>> ELSE JoinPipe(t)

\* C17: a processed row that lacks a GROUP BY column raises no error and is
\* not dropped: its group has NULL for that column in the group key, in the
\* group's values and in the rendered cell, and the group's COUNT(*)
\* aggregator has counted the row.
C17_MissingGroupColumnIsNull ==
    (pc \in {"returned", "threw"} /\ query.group_by_columns # <<>>) =>
        /\ pc = "threw" => query.sampling.method = "STRATIFIED"
        /\ pc = "returned" =>
            \A n \in DOMAIN Processed :
                LacksGroupColumn(Processed[n]) =>
                    LET t == NullTuple(Processed[n])
                    IN  /\ KeyText(t) \in DOMAIN group_results
                        /\ group_results[KeyText(t)].group_by_values = t
                        /\ \A i \in AggregatedColumns :
                            query.columns[i] = CountStar =>
                                getResult(group_results[KeyText(t)], "*")
                                    = FromInt(Len(RowsOfGroup(t)))
                        /\ \E k \in DOMAIN result.rows :
                            \A i \in DOMAIN query.columns :
                                \A j \in DOMAIN query.group_by_columns :
                                    (query.columns[i].aggregation = "NONE"
                                        /\ query.columns[i].name = query.group_by_columns[j])
                                        => result.rows[k][i] = t[j]

\* GROUP BY category, value over a row without category and a row without
\* value: both are counted and rendered with NULL.
C17_Witness ==
    /\ pc = "returned"
    /\ ~Sampled
    /\ query = MakeQuery(<<RawCategory, RawValue, CountStar>>, <<"category", "value">>,
                         Sampling)
    /\ \E n, m \in DOMAIN data : "category" \notin DOMAIN data[n] /\ "value" \notin DOMAIN data[m]
    /\ \E k \in DOMAIN result.rows :
        /\ result.rows[k][1] = <<"N", "U", "L", "L">>
        /\ result.rows[k][2] = <<"1", "0">>
        /\ result.rows[k][3] = to_string(FromInt(2))

\* The processed rows whose group key is g.
RowsOfKey(g) == SelectSeq(Processed, LAMBDA r : GroupKey(query, r) = g)

\* The rows that have the field.
WithField(rows, name) == SelectSeq(rows, LAMBDA r : name \in DOMAIN r)

\* C18: a processed row that lacks the source field of an aggregated column
\* contributes nothing to that column's aggregator, whatever its kind,
\* COUNT(col) included: the aggregator's result is the aggregate over the
\* group's rows that have the field.
C18_MissingFieldContributesNothing ==
    (pc = "returned" /\ ~SharesSource) =>
        \A g \in DOMAIN group_results : \A i \in AggregatedColumns :
            query.columns[i].name # "*" =>
                getResult(group_results[g], query.columns[i].name)
                    = Reference(query.columns[i].aggregation,
                                WithField(RowsOfKey(g), query.columns[i].name),
                                query.columns[i].name)

\* The text starts, after white space and an optional sign, with a decimal
\* number: what the numeric parse of the engine accepts.
IsNumberText(text) ==
    LET unsigned == Drop(text, Skip(text, 0, "s"))
        body == IF unsigned # <<>> /\ Head(unsigned) \in {"-", "+"}
                THEN Tail(unsigned) ELSE unsigned
        int_end == Skip(body, 0, "d")
    IN  \/ int_end > 0
        \/ StartsWith(body, 0, <<".">>) /\ Skip(body, 1, "d") > 1

\* The row has the field and its text is empty or has no number to parse.
NonNumeric(r, name) == name \in DOMAIN r /\ ~IsNumberText(r[name])

\* The numbers of the field in the rows that have it as a number.
RECURSIVE NumbersOf(_, _)
NumbersOf(rows, name) ==
    IF rows = <<>> THEN <<>>
    ELSE (IF name \in DOMAIN Head(rows) /\ IsNumberText(Head(rows)[name])
          THEN <<stod(Head(rows)[name]).val>> ELSE <<>>)
         \o NumbersOf(Tail(rows), name)

\* An aggregator after addValue of each of the values in turn.
RECURSIVE Fed(_, _)
Fed(a, vals) ==
    IF vals = <<>> THEN a ELSE Fed(Aggregator_addValue(a, Head(vals)), Tail(vals))

\* The aggregator addAggregator stores under the name "x".
Fresh(type) == addAggregator(AggregateResult, "x", type).aggregators["x"]

ReferenceOf(type, vals) ==
    CASE type = "COUNT" -> FromInt(Len(vals))
      [] type = "SUM" -> SumSeq(vals)
      [] type = "AVG" ->
            IF vals = <<>> THEN Zero ELSE RDiv(SumSeq(vals), FromInt(Len(vals)))
      [] type = "MIN" -> IF vals = <<>> THEN Zero ELSE Least(vals)
      [] type = "MAX" -> IF vals = <<>> THEN Zero ELSE Greatest(vals)

\* C20: after any sequence of add(x) calls on a fresh aggregator, result()
\* is the number of adds (COUNT), the sum of the x (SUM), the sum over the
\* number of adds or 0 with no add (AVG), the least or greatest x or 0 with
\* no add (MIN, MAX); result() calls in between leave the state as the adds
\* alone made it.
C20_AggregatorReference ==
    /\ Aggregator_getResult(agg) = ReferenceOf(agg.type, values)
    /\ agg = Fed(Fresh(agg.type), values)
    /\ \A k \in DOMAIN reported :
        reported[k].value = ReferenceOf(agg.type, SubSeq(values, 1, reported[k].at))

\* A MinAggregator whose least value came second, read before the last add.
C20_Witness ==
    /\ agg.type = "MIN"
    /\ values = <<FromInt(2), FromInt(-3), Rat(1, 2)>>
    /\ reported = <<[at |-> 2, value |-> FromInt(-3)]>>

(***************************************************************************)
(* Properties of the sampler interface                                     *)
(***************************************************************************)
\* The number of positions of seq that hold x.
Occurrences(seq, x) == Cardinality({i \in DOMAIN seq : seq[i] = x})

\* Two row lists hold the same rows, each as often, in any order.
SamePopulation(p, q) ==
    \A x \in Range(p) \cup Range(q) : Occurrences(p, x) = Occurrences(q, x)

\* C21: on every sampler kind a getSample call leaves the sampler as it was,
\* a second call with no add or clear in between returns the same
\* population, and an add or clear leaves a vector returned earlier as it
\* was.
C21_SampleIsSnapshot ==
    [][/\ SamplerSample =>
            /\ smp' = smp
            /\ (snapshot # <<>> /\ snapshot[1].of = smp.obj) =>
                    SamePopulation(snapshot'[1].rows, snapshot[1].rows)
       /\ (SamplerAdd \/ SamplerClear) => snapshot' = snapshot]_vars

\* A stratified sampler whose sample was taken with rows of two strata in
\* it and that was fed further rows afterwards.
C21_Witness ==
    /\ ctor.kind = "STRATIFIED"
    /\ snapshot # <<>>
    /\ Cardinality(Range(snapshot[1].rows)) = 2
    /\ Len(added) > MaxSnapshotAdds
    /\ snapshot[1].rows \notin getSample(smp.obj)

\* C22: on every sampler kind clear() leaves the sampler in the state its
\* constructor made (no row held, position counter and total_seen 0, no
\* stratum), so that getSample is empty and the adds that follow act as on
\* a new sampler of the same configuration.
C22_ClearResets ==
    (smp.ok /\ added = <<>>) =>
        /\ smp = Construct(ctor)
        /\ getSample(smp.obj) = {<<>>}

\* A reservoir that had seen two rows when its sample was taken and was
\* cleared afterwards.
C22_Witness ==
    /\ ctor = [kind |-> "RESERVOIR", arg |-> 1]
    /\ snapshot # <<>>
    /\ snapshot[1].of.total_seen = 2
    /\ Len(snapshot[1].rows) = 1
    /\ added = <<>>
    /\ smp.obj.total_seen = 0

\* C23: in every state of every sampler kind, after any adds, getSample
\* calls and clears, getSamplingRate is in [0, 1]; for the reservoir it is
\* the number of rows held over the number of rows seen, and 0 when no row
\* has been seen.
C23_RateInUnitInterval ==
    smp.ok =>
        /\ ~RLess(getSamplingRate(smp.obj), Zero)
        /\ ~RLess(One, getSamplingRate(smp.obj))
        /\ ctor.kind = "RESERVOIR" =>
                getSamplingRate(smp.obj) =
                    IF added = <<>> THEN Zero
                    ELSE Rat(Len(smp.obj.reservoir), Len(added))

\* A reservoir of capacity 2 that has seen five rows.
C23_Witness ==
    /\ ctor = [kind |-> "RESERVOIR", arg |-> 2]
    /\ Len(added) = 5
    /\ getSamplingRate(smp.obj) = Rat(2, 5)

(***************************************************************************)
(* Properties of the executor's members and of repeated calls              *)
(***************************************************************************)
\* C24: when execute has returned, the executor holds no sampler and no
\* aggregator bundle.
C24_MembersReleasedAtReturn ==
    pc = "returned" => (sampler = NoSampler /\ group_results = EmptyMap)

\* The outcomes of the call on a newly constructed QueryExecutor.
OnNewExecutor == execute([sampler |-> NoSampler, group_results |-> EmptyMap], query, data)

\* C25: on one QueryExecutor, whatever calls were made before, a call ends
\* as the same call can end on a newly constructed executor: it returns a
\* result or throws an exception that the query, the dataset and the random
\* draws of this call alone produce.
C25_CallsAreIndependent ==
    pc \in {"returned", "threw"} =>
        \E o \in OnNewExecutor : o.pc = pc /\ o.error = error /\ o.result = result

\* A second call, with no GROUP BY and on one row, after a call that left
\* two groups and a sampler in the executor: its result has the single row
\* of the default group.
C25_Witness ==
    /\ Len(calls) = 2
    /\ calls[1].query.group_by_columns = <<"category">>
    /\ Len(calls[1].data) = 2
    /\ calls[2].query.sampling.method = "NONE"
    /\ calls[2].query.group_by_columns = <<>>
    /\ Len(calls[2].data) = 1
    /\ pc = "returned"
    /\ result.rows = << <<to_string(One)>> >>

(***************************************************************************)
(* Shape of the result                                                     *)
(***************************************************************************)
\* C26: a result execute returns has one header per query column, in query
\* order, the alias when it is not empty and the source name otherwise;
\* every row has as many cells as there are headers, and the cell of a raw
\* column that is not a GROUP BY column is the empty string.
C26_HeadersAndRowWidth ==
    pc = "returned" =>
        /\ Len(result.column_names) = Len(query.columns)
        /\ \A i \in DOMAIN query.columns :
            result.column_names[i] =
                IF query.columns[i].alias # "" THEN query.columns[i].alias
                ELSE query.columns[i].name
        /\ \A k \in DOMAIN result.rows :
            /\ Len(result.rows[k]) = Len(result.column_names)
            /\ \A i \in DOMAIN query.columns :
                (/\ query.columns[i].aggregation = "NONE"
                 /\ query.columns[i].name \notin Range(query.group_by_columns))
                    => result.rows[k][i] = <<>>

\* SELECT category, value, COUNT(*) ... GROUP BY category on two rows with
\* values: the column value renders empty in both result rows.
C26_Witness ==
    /\ pc = "returned"
    /\ query.columns = <<RawCategory, RawValue, CountStar>>
    /\ query.group_by_columns = <<"category">>
    /\ data = <<Row2(<<"A">>, <<"1">>), Row2(<<"B">>, <<"-", "3">>)>>
    /\ result.column_names = <<"category", "value", "COUNT(*)">>
    /\ Len(result.rows) = 2
    /\ \A k \in 1..2 : result.rows[k][2] = <<>> /\ result.rows[k][1] # <<>>

(***************************************************************************)
(* Properties of the sampling algorithms                                   *)
(***************************************************************************)
\* C27: ReservoirSample::add of the i-th row since construction or the last
\* clear appends the row while fewer than max_size rows are held; otherwise
\* there is an index j in [0, i) such that the row replaces position j when
\* j < max_size, all other positions staying as they are, and is dropped
\* when j >= max_size.
C27_AlgorithmR ==
    [][(ctor.kind = "RESERVOIR" /\ SamplerAdd) =>
          LET i == Len(added')
              item == added'[i]
              held == smp.obj.reservoir
          IN  /\ smp'.obj.total_seen = i
              /\ IF Len(held) < smp.obj.max_size
                 THEN smp'.obj.reservoir = Append(held, item)
                 ELSE \E j \in 0..(i - 1) :
                        smp'.obj.reservoir =
                            IF j < smp.obj.max_size
                            THEN [held EXCEPT ![j + 1] = item] ELSE held]_vars

\* A reservoir of capacity 2 whose third row replaced position 0 and left
\* position 1 as it was.
C27_Witness ==
    /\ ctor = [kind |-> "RESERVOIR", arg |-> 2]
    /\ Len(added) = 3
    /\ added[3] # added[1]
    /\ added[2] # added[3]
    /\ smp.obj.reservoir = <<added[3], added[2]>>
    /\ smp.obj.total_seen = 3

\* The number of rows of the list whose stratum key is key.
RowsOfStratum(rows, key) == Cardinality({i \in DOMAIN rows : rows[i]["category"] = key})

StratumKeys == {item["category"] : item \in Items}

\* C28: after any adds, the sample of a StratifiedSampling holds, for every
\* stratum key, min(n, 100) rows of that key, n being the number of rows of
\* the key added since construction or the last clear, whatever the
\* configured rate; the sample holds no other row.
C28_StratumSizes ==
    (ctor.kind = "STRATIFIED" /\ smp.ok) =>
        \A p \in getSample(smp.obj) :
            /\ \A key \in StratumKeys :
                RowsOfStratum(p, key) = Min2(RowsOfStratum(added, key), 100)
            /\ \A i \in DOMAIN p : p[i]["category"] \in StratumKeys

\* A sampler of rate 50% fed one row of stratum B and 101 rows of stratum
\* A: it holds 100 rows of A and the row of B.
C28_Witness ==
    /\ ctor = [kind |-> "STRATIFIED", arg |-> 50]
    /\ RowsOfStratum(added, <<"A">>) = 101
    /\ RowsOfStratum(added, <<"B">>) = 1
    /\ \E p \in getSample(smp.obj) :
        /\ Len(p) = 101
        /\ RowsOfStratum(p, <<"A">>) = 100

\* The rows of the dataset whose group-by values are the tuple t.
DataOfGroup(t) ==
    SelectSeq(data, LAMBDA r : GroupValues(query.group_by_columns, r) = t)

\* C29: the sampler of a STRATIFIED query reports the configured rate
\* whatever rows it was fed, and execute shows COUNT and SUM of each group
\* multiplied by 1 over that rate, also when the sample holds every row of
\* the dataset.
C29_StratifiedScalesByConfiguredRate ==
    (pc = "returned" /\ query.sampling.method = "STRATIFIED") =>
        /\ getSamplingRate(sampler) = query.sampling.rate
        /\ \A p \in getSample(sampler) : SamePopulation(p, data)
        /\ \A r \in Range(data) :
            LET t == GroupValues(query.group_by_columns, r)
            IN  \E k \in DOMAIN result.rows :
                    \A i \in DOMAIN query.columns :
                        query.columns[i].aggregation \in {"COUNT", "SUM"} =>
                            result.rows[k][i] =
                                to_string(RMul(Reference(query.columns[i].aggregation,
                                                         DataOfGroup(t),
                                                         query.columns[i].name),
                                               RDiv(One, query.sampling.rate)))

\* STRATIFIED BY category 50% on two rows of one stratum, both retained:
\* COUNT shows 4 and SUM shows 4.
C29_Witness ==
    /\ pc = "returned"
    /\ query.sampling.method = "STRATIFIED"
    /\ query.sampling.rate = Rat(1, 2)
    /\ query.columns = <<RawCategory, CountStar, SumValue>>
    /\ data = <<Row2(<<"A">>, <<"1">>), Row2(<<"A">>, <<"1">>)>>
    /\ sampler.strata[<<"A">>].reservoir = data
    /\ result.rows = << <<<<"A">>, to_string(FromInt(4)), to_string(FromInt(4))>> >>

\* p can be obtained from q by deleting elements.
RECURSIVE IsSubsequence(_, _)
IsSubsequence(p, q) ==
    IF p = <<>> THEN TRUE
    ELSE IF q = <<>> THEN FALSE
    ELSE IF Head(p) = Head(q) THEN IsSubsequence(Tail(p), Tail(q))
    ELSE IsSubsequence(p, Tail(q))

\* C30: in every state of every sampler kind the sample holds no row more
\* often than it was added since construction or the last clear; the sample
\* of a simple random or systematic sampler is moreover the rows added, in
\* arrival order, with some of them left out.
C30_SampleOfAddedRows ==
    smp.ok =>
        \A p \in getSample(smp.obj) :
            /\ \A x \in Range(p) : Occurrences(p, x) <= Occurrences(added, x)
            /\ ctor.kind \in {"RANDOM", "SYSTEMATIC"} => IsSubsequence(p, added)

\* A simple random sampler of rate 50% that admitted the second and the
\* fourth of five rows and dropped the others.
C30_Witness ==
    /\ ctor = [kind |-> "RANDOM", arg |-> 50]
    /\ Len(added) = 5
    /\ added[2] # added[4]
    /\ added[1] = added[4]
    /\ smp.obj.sample = <<added[2], added[4]>>

\* C31: for a query with SAMPLE RESERVOIR k and no GROUP BY on a non-empty
\* dataset, every COUNT(*) cell of the result shows the number of rows of
\* the dataset, whatever rows the reservoir replaced.
C31_ReservoirCountIsExact ==
    (/\ pc = "returned"
     /\ query.sampling.method = "RESERVOIR"
     /\ query.group_by_columns = <<>>
     /\ data # <<>>) =>
        /\ Len(result.rows) = 1
        /\ \A i \in DOMAIN query.columns :
            query.columns[i] = CountStar =>
                result.rows[1][i] = to_string(FromInt(Len(data)))

\* A reservoir of one row over three rows, the last of which replaced the
\* first: COUNT(*) shows 3.
C31_Witness ==
    /\ pc = "returned"
    /\ query.sampling.method = "RESERVOIR"
    /\ query.sampling.size = 1
    /\ query.columns[1] = CountStar
    /\ query.group_by_columns = <<>>
    /\ Len(data) = 3
    /\ data[3] # data[1]
    /\ sampler.reservoir = <<data[3]>>
    /\ result.rows[1][1] = to_string(FromInt(3))

(***************************************************************************)
(* C32 .. C34: the sketches                                                *)
(***************************************************************************)
\* The cells estimate reads for the item, one in each row.
ProbedCells(s, item) ==
    {s.sketch[i][hash(item, s.hash_seeds[i], s.width) + 1] : i \in 1..s.depth}

\* C32: in a CountMinSketch that was given no negative count since its
\* construction or its last clear, every estimate that is returned is the
\* least of the cells probed in the rows, is not below the total added for
\* the item, and is 0 right after clear.
C32_EstimateIsRowMinimum ==
    (sk.kind = "CMS" /\ sk_pc = "idle" /\ ~sk_log.negative) =>
        \A item \in SketchItems :
            LET e == CountMinSketch_estimate(sk, item)
            IN  e.ok =>
                    /\ \A c \in ProbedCells(sk, item) : e.value <= c
                    /\ sk.depth > 0 => e.value \in ProbedCells(sk, item)
                    /\ e.value >= sk_log.total[item]
                    /\ sk_log.cleared => e.value = 0

\* C33: in a BloomFilter, mightContain returns true for every item added
\* since construction or the last clear, whatever else was added since, and
\* an add leaves every bit that was set as it is.
C33_NoFalseNegatives ==
    [][sk.kind = "BLOOM" =>
        /\ \A item \in SketchItems :
            sk_log'.total[item] > 0 =>
                mightContain(sk', item).ok /\ mightContain(sk', item).value
        /\ sk_log'.n = sk_log.n + 1 =>
            \A j \in 1..sk.num_bits : sk.bits[j] => sk'.bits[j]]_vars

\* "a" and "b" were added and set the two bits; both are reported ("ab",
\* never added, is reported too).
C33_Witness ==
    /\ sk.kind = "BLOOM"
    /\ sk.num_bits = 2
    /\ sk.hashers[1][<<"a", "b">>] = 2
    /\ sk_log.n = 2
    /\ sk_log.total[<<"a">>] = 1
    /\ sk_log.total[<<"b">>] = 1
    /\ getIndex(sk, <<"a">>, 0) # getIndex(sk, <<"b">>, 0)
    /\ mightContain(sk, <<"a">>).value
    /\ mightContain(sk, <<"b">>).value
    /\ sk.bits = <<TRUE, TRUE>>

\* floor(log2(w)) for w >= 1
RECURSIVE FloorLog2(_)
FloorLog2(w) == IF w < 2 THEN 0 ELSE 1 + FloorLog2(w \div 2)

\* k * (1 + floor(log2(window))) with k = ceil(1 / epsilon)
BucketLimit(s) ==
    ((s.epsilon[2] + s.epsilon[1] - 1) \div s.epsilon[1]) * (1 + FloorLog2(s.window_size))

RECURSIVE BucketSum(_)
BucketSum(b) == IF b = <<>> THEN 0 ELSE Head(b).count + BucketSum(Tail(b))

\* The buckets with the buckets at i and i + 1 combined into one at i.
Combined(b, i) ==
    SubSeq(b, 1, i - 1)
        \o <<[count |-> b[i].count + b[i + 1].count, timestamp |-> b[i].timestamp]>>
        \o SubSeq(b, i + 2, Len(b))

\* C34: in an ExponentialHistogram with k >= 1 and window >= 1, every turn
\* of the merge loop combines the first adjacent pair of buckets of equal
\* count or, when there is none, the two oldest buckets, and keeps the sum
\* of the counts; when add returns, no bucket is older than ts - window and
\* there are at most k * (1 + floor(log2(window))) buckets; and every add
\* returns.
C34_AddMergesAndReturns ==
    /\ [][(sk.kind = "EH" /\ sk_pc = "merge") =>
            /\ sk_pc' = "merge" =>
                LET b == sk.buckets
                    Equal == {i \in 1..(Len(b) - 1) : b[i].count = b[i + 1].count}
                IN  /\ Len(b) >= 2
                    /\ sk'.buckets =
                          IF Equal # {}
                          THEN Combined(b, CHOOSE i \in Equal : \A j \in Equal : i <= j)
                          ELSE Combined(b, 1)
                    /\ BucketSum(sk'.buckets) = BucketSum(b)
            /\ sk_pc' = "idle" =>
                /\ \A i \in DOMAIN sk'.buckets :
                      sk'.buckets[i].timestamp >= sk_log.timestamp - sk.window_size
                /\ Len(sk'.buckets) <= BucketLimit(sk)]_vars
    /\ (sk_pc = "merge") ~> (sk_pc = "idle")

\* Three adds into a histogram that holds two buckets: the third add found
\* no two adjacent buckets of equal count and combined the two oldest.
C34_Witness ==
    /\ sk.kind = "EH"
    /\ sk_pc = "idle"
    /\ sk.window_size = 2
    /\ sk.epsilon = One
    /\ sk_log.n = 3
    /\ sk_log.timestamp = 2
    /\ sk.buckets = <<[count |-> 3, timestamp |-> 0], [count |-> 1, timestamp |-> 2]>>

====
